---- MODULE Spec2Model ----
(***************************************************************************)
(* Replay scheduling engine and command history of the HippoCamp WebUI     *)
(* (src/docker/webui/app.py): the shared replay state, the replay worker   *)
(* threads, the start/stop request handlers and the observer presence      *)
(* counter, as a state machine whose steps are the sections of the code    *)
(* that run under one lock (or one call that touches shared state).        *)
(***************************************************************************)
EXTENDS Integers, Sequences, FiniteSets, TLC

VARIABLES
    replay_state,              \* app.py:92  the shared replay state (a dict)
    replay_connected_clients,  \* app.py:108 the presence counter
    REPLAY_NO_CLIENT_GATE,     \* app.py:109 read once from the environment
    command_history,           \* app.py:143 the command history list
    workers,                   \* the _replay_worker threads, in spawn order
    handlers,                  \* the request-handling threads
    replay_events,             \* the 'replay_event' payloads emitted so far,
                               \* in emission order, by their session_id
    budget,                    \* number of requests the model still accepts
    last_stop,                 \* history: <<reason>> when the latest write to
                               \* replay_state was a stop's, else <<>>
    producers,                 \* the threads inside log_command (or one of its
                               \* inline copies), by their source
    trace_files,               \* the JSON documents on disk, by their path
    locks,                     \* app.py:91,107 the thread inside each lock
    observers,                 \* the handle_connect / handle_disconnect
                               \* threads, with what each was sent on connect
    timed                      \* whether the length of the timing sleeps is
                               \* traced (else a sleep is over at any time)

vars == <<replay_state, replay_connected_clients, REPLAY_NO_CLIENT_GATE,
          command_history, workers, handlers, replay_events, budget,
          last_stop, producers, trace_files, locks, observers, timed>>

----------------------------------------------------------------------------
(* Bounds of the model *)

\* length of the longest trace file
MaxEvents == 2
\* number of start/stop requests served in one run
MaxRequests == 3
\* number of concurrent request-handling threads
NumHandlers == 1
\* number of observers that may be connected at once
MaxClients == 1
\* number of entries each thread appends to the history when the threads
\* append concurrently
MaxAppends == 2
\* number of entries appended beyond MAX_HISTORY by a single caller
MaxOverflow == 3
\* number of records of a trace document drawn for the loader
MaxRecords == 3
\* largest timestamp of a record of a drawn trace document
MaxTimestamp == 3
\* number of different timestamps a caller of terminal_notify may supply,
\* and of different readings of the server's clock
MaxStamp == 2

----------------------------------------------------------------------------
(* Program constants *)

MAX_HISTORY == 100
\* line 1388, command_history[-20:]: the entries sent to a connecting client
HISTORY_WINDOW == 20

\* Speeds are counted in hundredths: 1.0 is SpeedUnit
SpeedUnit == 100
\* lines 86-89: the configured default speed, with HIPPOCAMP_REPLAY_SPEED
\* unset
REPLAY_DEFAULT_SPEED == 100
\* lines 773, 721 and 1146: the floor 0.05 of max(0.05, ...)
SPEED_FLOOR == 5

\* Python's None for the string-valued fields
None == "None"

Handlers == 1..NumHandlers

\* every request bumps session_id at most twice (a stop, then a start)
SessionIds == 0..(2 * MaxRequests)

\* every start request spawns at most one worker
MaxWorkers == MaxRequests

----------------------------------------------------------------------------
(* Trace files and the event loader *)

EventTypeOf(i) == IF i % 2 = 1 THEN "file_read" ELSE "file_write"

\* float('nan'): the one value of a timestamp that no comparison orders.
\* The timestamps of the model are the naturals 0..MaxTimestamp and NaN.
NaN == -1

\* a == b and a < b on floats
FloatEq(a, b) == a # NaN /\ b # NaN /\ a = b

FloatLt(a, b) == a # NaN /\ b # NaN /\ a < b

\* mutant: a max that returns its second argument
PyMax_Second(a, b) == b

\* Python's max(a, b): b when b > a, else a (so max(a, nan) is a)
PyMax(a, b) == IF FloatLt(a, b) THEN b ELSE a

\* `speed or 1.0`: 0.0 is falsy, every other float (nan too) is kept
OrOne(speed) == IF FloatEq(speed, 0) THEN SpeedUnit ELSE speed

\* The 'speed' of a request body: the key is missing, or its value is null,
\* a string that float() refuses, the literal NaN, or a number (in
\* hundredths; -1 stands for NaN and is not one of them)
SpeedNumbers == {-100, 0, 1, 5, 50, 100, 200}

SpeedInputs ==
    {[kind |-> k, value |-> 0]: k \in {"missing", "null", "text"}}
        \cup {[kind |-> "number", value |-> NaN]}
        \cup {[kind |-> "number", value |-> v]: v \in SpeedNumbers}

MissingSpeed == [kind |-> "missing", value |-> 0]

\* replay_start, lines 1144-1148: speed_raw = data.get('speed', default);
\* max(0.05, float(speed_raw)), and the default when float() raises
RequestedSpeed(speed_raw) ==
    CASE speed_raw.kind = "missing" -> PyMax(SPEED_FLOOR, REPLAY_DEFAULT_SPEED)
      [] speed_raw.kind \in {"null", "text"} -> REPLAY_DEFAULT_SPEED
      [] OTHER -> PyMax(SPEED_FLOOR, speed_raw.value)

\* _start_replay_session, line 773: 'speed': max(0.05, float(speed or 1.0))
StoredSpeed(speed) == PyMax(SPEED_FLOOR, OrOne(speed))

\* A JSON value as the loader sees it: a list (with its items), another
\* value, or no value at all (a key that is absent)
Absent == [kind |-> "absent", items |-> <<>>]

Other == [kind |-> "other", items |-> <<>>]

ListValue(items) == [kind |-> "list", items |-> items]

\* A JSON document: a bare array, an object (with the values of its keys
\* 'events' and 'data') or a scalar
ListDoc(items) ==
    [kind |-> "list", items |-> items, events |-> Absent, data |-> Absent]

DictDoc(events, data) ==
    [kind |-> "dict", items |-> <<>>, events |-> events, data |-> data]

ScalarDoc == [kind |-> "scalar", items |-> <<>>, events |-> Absent, data |-> Absent]

\* A record of a trace: is_dict says whether it is a JSON object; its
\* 'timestamp' is <<t>> when float() converts it to t (t may be NaN: the
\* literal NaN, the string "nan") and <<>> when the key is absent or float()
\* raises (None, "abc", a list)
TraceRecord(i, is_dict, timestamp) ==
    [is_dict |-> is_dict, timestamp |-> timestamp, event_type |-> EventTypeOf(i)]

ArrayDoc(n) ==
    ListDoc([i \in 1..n |-> TraceRecord(i, TRUE, <<i - 1>>)])

\* The trace files on disk when nothing else is said: "long" and "short"
\* are bare arrays of records, "empty" is an empty array, "scalar" is a JSON
\* document that is no array; "missing" does not exist on disk.
DefaultDocument(path) ==
    CASE path = "long"  -> ArrayDoc(MaxEvents)
      [] path = "short" -> ArrayDoc(MaxEvents - 1)
      [] path = "empty" -> ArrayDoc(0)
      [] OTHER          -> ScalarDoc

Paths == {"long", "short", "empty", "scalar", "missing"}

DefaultTraceFiles == [path \in Paths \ {"missing"} |-> DefaultDocument(path)]

\* json.load(open(events_path)), lines 629-630
Document(path) == trace_files[path]

\* mutant: a resolution that returns the path without looking for the file
_resolve_replay_events_path_Unchecked(path_value) == path_value

\* _resolve_replay_events_path: the resolved path, or None when no
\* candidate is an existing file
_resolve_replay_events_path(path_value) ==
    IF path_value = "missing" THEN None ELSE path_value

\* mutant: a conversion that marks an absent or invalid timestamp as NaN
NormalizeTimestamp_NaNWhenInvalid(ts) == IF Len(ts) = 1 THEN ts[1] ELSE NaN

\* lines 643-646, float(normalized.get('timestamp', 0.0)), 0.0 on exception
NormalizeTimestamp(ts) == IF Len(ts) = 1 THEN ts[1] ELSE 0

\* mutant: a sort key that ignores the original index
KeyLt_NoIndex(a, b) == FloatLt(a.timestamp, b.timestamp)

\* line 650, key=lambda row: (row[1].get('timestamp', 0.0), row[0]):
\* key(a) < key(b) on tuples, decided by the first components that are not
\* equal
KeyLt(a, b) ==
    IF FloatEq(a.timestamp, b.timestamp)
    THEN a.idx < b.idx
    ELSE FloatLt(a.timestamp, b.timestamp)

\* list.sort on fewer than 64 items (CPython, Objects/listobject.c): the
\* leading run is found by count_run (reversed when strictly descending),
\* and the other items are inserted by binarysort

\* count_run: the index of the last item of the run that starts at 1 and
\* has reached i
RECURSIVE RunEnd(_, _, _)
RunEnd(rows, i, descending) ==
    IF i = Len(rows) THEN i
    ELSE IF KeyLt(rows[i + 1], rows[i]) = descending
         THEN RunEnd(rows, i + 1, descending)
         ELSE i

RECURSIVE Reverse(_)
Reverse(rows) ==
    IF rows = <<>> THEN <<>> ELSE Append(Reverse(Tail(rows)), Head(rows))

\* binarysort's search: the position in l..r where pivot goes, rows[l..r-1]
\* being the part already in order
RECURSIVE BinarySearch(_, _, _, _)
BinarySearch(rows, pivot, l, r) ==
    IF l >= r THEN l
    ELSE LET p == l + ((r - l) \div 2) IN
         IF KeyLt(pivot, rows[p])
         THEN BinarySearch(rows, pivot, l, p)
         ELSE BinarySearch(rows, pivot, p + 1, r)

\* binarysort: rows[1..start-1] is in order, insert the items from start on
RECURSIVE BinarySort(_, _)
BinarySort(rows, start) ==
    IF start > Len(rows) THEN rows
    ELSE LET pivot == rows[start]
             l == BinarySearch(rows, pivot, 1, start)
         IN BinarySort(SubSeq(rows, 1, l - 1) \o <<pivot>>
                         \o SubSeq(rows, l, start - 1)
                         \o SubSeq(rows, start + 1, Len(rows)),
                       start + 1)

\* line 650: indexed_events.sort(key=...)
SortRows(rows) ==
    IF Len(rows) < 2 THEN rows
    ELSE LET descending == KeyLt(rows[2], rows[1])
             n == RunEnd(rows, 2, descending)
             run == SubSeq(rows, 1, n)
         IN BinarySort((IF descending THEN Reverse(run) ELSE run)
                         \o SubSeq(rows, n + 1, Len(rows)),
                       n + 1)

\* lines 639-648: the (idx, normalized) rows of the records that are dicts
IndexedEvents(items) ==
    LET keep == SelectSeq([i \in 1..Len(items) |->
                              [idx |-> i - 1, rec |-> items[i]]],
                          LAMBDA r: r.rec.is_dict)
    IN [k \in 1..Len(keep) |->
          [idx |-> keep[k].idx,
           timestamp |-> NormalizeTimestamp(keep[k].rec.timestamp),
           event_type |-> keep[k].rec.event_type]]

\* mutant: an unwrapping that knows the key 'events' only
Unwrap_EventsOnly(payload) ==
    IF payload.kind = "dict" /\ payload.events.kind = "list"
    THEN ListDoc(payload.events.items)
    ELSE payload

\* lines 631-635: an object gives way to the list under 'events', else to
\* the list under 'data', else stays as it is
Unwrap(payload) ==
    IF payload.kind # "dict" THEN payload
    ELSE IF payload.events.kind = "list" THEN ListDoc(payload.events.items)
    ELSE IF payload.data.kind = "list" THEN ListDoc(payload.data.items)
    ELSE payload

\* _load_replay_events: [ok, events]; ok = FALSE models the ValueError
\* 'events file must be a JSON array'
_load_replay_events(events_path) ==
    LET payload == Unwrap(Document(events_path)) IN
    IF payload.kind # "list"
    THEN [ok |-> FALSE, error |-> "events file must be a JSON array", events |-> <<>>]
    ELSE [ok |-> TRUE, error |-> None,
          events |-> SortRows(IndexedEvents(payload.items))]

----------------------------------------------------------------------------
(* Threads and locks *)

\* The threads of the model: the request handlers, the replay workers and
\* the socket handlers of the observers
NoThread == <<>>

HandlerThread(h) == <<"handler", h>>

WorkerThread(w) == <<"worker", w>>

ObserverThread(o) == <<"observer", o>>

\* replay_state_lock (line 91) and replay_clients_lock (line 107), the lock
\* of replay_clients_cv. Where the locks are traced, a thread enters a
\* `with` block in a step of its own and the steps of the block follow;
\* where they are not (explicit = FALSE), a whole `with` block is one step
\* and both locks are free in every state.
LockNames == {"replay_state_lock", "replay_clients_lock"}

UntracedLocks ==
    [explicit |-> FALSE, replay_state_lock |-> NoThread,
     replay_clients_lock |-> NoThread]

TracedLocks == [UntracedLocks EXCEPT !.explicit = TRUE]

\* mutant: a lock that excludes nobody
LockFree_NoExclusion(lock) == TRUE

\* Lock.acquire succeeds
LockFree(lock) == locks[lock] = NoThread

\* thread is inside `with lock:`
InBlock(thread, lock) == locks.explicit => locks[lock] = thread

\* thread is outside every `with` block
HoldsNothing(thread) == \A lock \in LockNames: locks[lock] # thread

\* A request can be taken by thread h: one of the requests that are served is
\* left for it, beyond those of the threads that have already entered
\* their first `with` block
Admits(h) ==
    budget > Cardinality({g \in DOMAIN handlers \ {h}:
                             /\ handlers[g].pc = "idle"
                             /\ ~HoldsNothing(HandlerThread(g))})

\* mutant: a `with` block that is left without releasing its lock
Released_Kept(lock) == locks

\* the end of a `with lock:` block
Released(lock) == [locks EXCEPT ![lock] = NoThread]

\* a socket handler thread of an observer that is not connected
NoObservers ==
    [o \in 1..MaxClients |-> [pc |-> "out", history |-> <<>>, state |-> <<>>]]

----------------------------------------------------------------------------
(* Initial state *)

InitialReplayState ==
    [running |-> FALSE, completed |-> FALSE, session_id |-> 0,
     events_path |-> "", speed |-> REPLAY_DEFAULT_SPEED,
     events_total |-> 0, events_sent |-> 0,
     last_event_type |-> "", last_event_ts |-> <<>>,
     finished_at |-> None, error |-> None]

IdleHandler ==
    [pc |-> "idle", op |-> "", path |-> "", reason |-> "",
     speed |-> REPLAY_DEFAULT_SPEED,
     snapshot |-> <<>>, status |-> 0, written |-> 0]

\* the 'source' values of the history entries: the threads that append
Sources == {"webui", "terminal", "agent"}

\* a thread outside log_command: sent counts the entries it has appended,
\* todo the calls it has still to make
IdleProducer == [pc |-> "idle", sent |-> 0, todo |-> 0]

InitWith(requests) ==
    /\ replay_state = InitialReplayState
    /\ replay_connected_clients = 0
    /\ REPLAY_NO_CLIENT_GATE \in BOOLEAN
    /\ command_history = <<>>
    /\ workers = <<>>
    /\ handlers = [h \in Handlers |-> IdleHandler]
    /\ replay_events = [sid \in SessionIds |-> <<>>]
    /\ budget = requests
    /\ last_stop = <<>>
    /\ producers = [p \in Sources |-> IdleProducer]
    /\ trace_files = DefaultTraceFiles
    /\ locks = UntracedLocks
    /\ observers = NoObservers
    /\ timed = FALSE

Init == InitWith(MaxRequests)

----------------------------------------------------------------------------
(* Shared replay state accessors *)

\* _update_replay_state(**updates): the dict after replay_state.update(updates);
\* updates is a record whose fields replace those of state
_update_replay_state(state, updates) ==
    [k \in DOMAIN state |-> IF k \in DOMAIN updates THEN updates[k] ELSE state[k]]

\* the test both the worker and the presence wait make under replay_state_lock:
\*   not replay_state.get('running') or replay_state.get('session_id') != session_id
SessionInactive(state, session_id) ==
    (~state.running) \/ state.session_id # session_id

\* mutant: a start that forgets to reset the progress of the old session
StartUpdate_KeepsProgress(state, events_path, events) ==
    _update_replay_state(state,
        [running |-> TRUE, completed |-> FALSE,
         session_id |-> state.session_id + 1,
         events_path |-> events_path,
         events_total |-> Len(events),
         finished_at |-> None, error |-> None])

\* mutant: a start that keeps the epoch of the session before it
StartUpdate_ReusesEpoch(state, events_path, events) ==
    _update_replay_state(state,
        [running |-> TRUE, completed |-> FALSE,
         events_path |-> events_path,
         events_total |-> Len(events), events_sent |-> 0,
         last_event_type |-> "", last_event_ts |-> <<>>,
         finished_at |-> None, error |-> None])

\* mutant: a start that leaves finished_at and error of the previous session
StartUpdate_KeepsError(state, events_path, events) ==
    _update_replay_state(state,
        [running |-> TRUE, completed |-> FALSE,
         session_id |-> state.session_id + 1,
         events_path |-> events_path,
         events_total |-> Len(events), events_sent |-> 0,
         last_event_type |-> "", last_event_ts |-> <<>>])

\* the locked section of _start_replay_session
StartUpdate(state, events_path, events) ==
    _update_replay_state(state,
        [running |-> TRUE, completed |-> FALSE,
         session_id |-> state.session_id + 1,
         events_path |-> events_path,
         events_total |-> Len(events), events_sent |-> 0,
         last_event_type |-> "", last_event_ts |-> <<>>,
         finished_at |-> None, error |-> None])

\* mutant: a stop that forgets to bump session_id
StopUpdate_NoBump(state, reason) ==
    [state EXCEPT !.running = FALSE,
                  !.completed = FALSE,
                  !.finished_at = "now",
                  !.error = IF reason \in {"stopped", ""} THEN None ELSE reason]

\* the locked section of _stop_replay_session
StopUpdate(state, reason) ==
    [state EXCEPT !.running = FALSE,
                  !.completed = FALSE,
                  !.session_id = state.session_id + 1,
                  !.finished_at = "now",
                  !.error = IF reason \in {"stopped", ""} THEN None ELSE reason]

\* the update of the except branch of replay_start (and of the autostart runner)
FailedStartUpdate(state, events_path, error) ==
    _update_replay_state(state,
        [running |-> FALSE, completed |-> FALSE, events_path |-> events_path,
         error |-> error, finished_at |-> "now"])

\* the per-event update of _replay_worker
EventUpdate(state, idx, event) ==
    _update_replay_state(state,
        [events_sent |-> idx + 1, last_event_type |-> event.event_type,
         last_event_ts |-> <<event.timestamp>>])

\* mutant: a terminal update that leaves running as it is
CompletedUpdate_KeepsRunning(state) ==
    _update_replay_state(state,
        [completed |-> TRUE, finished_at |-> "now", error |-> None])

\* the terminal update of _replay_worker
CompletedUpdate(state) ==
    _update_replay_state(state,
        [running |-> FALSE, completed |-> TRUE, finished_at |-> "now",
         error |-> None])

----------------------------------------------------------------------------
(* Command history *)

\* _format_event_command, for the event types of the model's traces
_format_event_command(event) == "[replay] " \o event.event_type

\* mutant: command_history.pop() in place of pop(0)
Evict_Newest(history) == SubSeq(history, 1, Len(history) - 1)

\* command_history.pop(0)
Evict(history) == Tail(history)

\* len(command_history) > MAX_HISTORY
OverCapacity(history) == Len(history) > MAX_HISTORY

\* log_command run by one thread with no other thread in between: append
\* the entry, drop the oldest one beyond MAX_HISTORY
log_command(history, source, command) ==
    LET appended == Append(history, [source |-> source, command |-> command])
    IN IF OverCapacity(appended) THEN Evict(appended) ELSE appended

\* the history after n calls of log_command by the terminal, the n-th with
\* command n
\* (each call appends one entry and drops the oldest beyond MAX_HISTORY, so
\* what is left are the newest min(n, MAX_HISTORY) entries)
Logged(n) ==
    LET kept == IF n > MAX_HISTORY THEN MAX_HISTORY ELSE n
    IN [i \in 1..kept |-> [source |-> "terminal", command |-> n - kept + i]]

\* log_command takes no lock: its three statements are three steps of the
\* calling thread, and other threads run between them.
\* line 198 (and 1283, 1360): command_history.append(entry)
HistoryAppend(p) ==
    /\ producers[p].pc = "idle"
    /\ producers[p].todo > 0
    /\ command_history' = Append(command_history,
            [source |-> p, command |-> producers[p].sent + 1])
    /\ producers' = [producers EXCEPT ![p] =
            [pc |-> "check", sent |-> @.sent + 1, todo |-> @.todo - 1]]
    /\ UNCHANGED <<timed, locks, observers, trace_files,
                   replay_state, replay_connected_clients, REPLAY_NO_CLIENT_GATE,
                   workers, handlers, replay_events, budget, last_stop>>

\* line 199 (and 1284, 1361): if len(command_history) > MAX_HISTORY
HistoryCheck(p) ==
    /\ producers[p].pc = "check"
    /\ producers' = [producers EXCEPT ![p].pc =
            IF OverCapacity(command_history) THEN "pop" ELSE "idle"]
    /\ UNCHANGED <<timed, locks, observers, trace_files,
                   replay_state, replay_connected_clients, REPLAY_NO_CLIENT_GATE,
                   command_history, workers, handlers, replay_events, budget,
                   last_stop>>

\* line 200 (and 1285, 1362): command_history.pop(0)
HistoryPop(p) ==
    /\ producers[p].pc = "pop"
    /\ command_history' = Evict(command_history)
    /\ producers' = [producers EXCEPT ![p].pc = "idle"]
    /\ UNCHANGED <<timed, locks, observers, trace_files,
                   replay_state, replay_connected_clients, REPLAY_NO_CLIENT_GATE,
                   workers, handlers, replay_events, budget, last_stop>>

HistoryStep(p) == HistoryAppend(p) \/ HistoryCheck(p) \/ HistoryPop(p)

----------------------------------------------------------------------------
(* Replay worker threads: _replay_worker and _wait_for_replay_client.
   workers[w].idx is the loop index (0-based), events[idx + 1] the event. *)

Workers == DOMAIN workers

NewWorker(session_id, events_path, events) ==
    [session_id |-> session_id, events_path |-> events_path, events |-> events,
     idx |-> 0, pc |-> "check1", notified |-> FALSE, sleep_left |-> 0,
     speed |-> REPLAY_DEFAULT_SPEED]

\* a thread that has returned keeps no locals: only the session it was
\* bound to and the way it ended remain
Terminated(worker, how) ==
    [session_id |-> worker.session_id, events_path |-> worker.events_path,
     events |-> <<>>, idx |-> 0, pc |-> how, notified |-> FALSE,
     sleep_left |-> 0, speed |-> REPLAY_DEFAULT_SPEED]

\* the ways a worker thread ends: return at an epoch check, return after an
\* abandoned presence wait, return after the loop, uncaught exception
TerminalPcs == {"exited", "abandoned", "completed", "crashed"}

SetWorker(w, pc) ==
    workers' = [workers EXCEPT ![w] =
                   IF pc \in TerminalPcs
                   THEN Terminated(workers[w], pc)
                   ELSE [workers[w] EXCEPT !.pc = pc]]

\* mutant: a wait without timeout, which only a notify ends
CvWaitReturns_NoTimeout(worker) == worker.notified

\* Condition.wait(timeout=0.25) returns when notified or when the timeout
\* elapses; the timeout can always elapse
CvWaitReturns(worker) == worker.notified \/ TRUE

\* line 721, max(0.05, float(speed or 1.0)): the divisor of the worker
Divisor(worker) == PyMax(SPEED_FLOOR, OrOne(worker.speed))

\* lines 718-721: target_elapsed, the time from the first event at which the
\* event is due, max(0.0, (current_ts - base_ts) / divisor), in whole ticks
\* (one tick is one unit of timestamp at speed 1.0); max(0.0, nan) is 0.0
TargetElapsed(worker) ==
    LET current_ts == worker.events[worker.idx + 1].timestamp
        base_ts == worker.events[1].timestamp
    IN IF current_ts = NaN \/ base_ts = NaN THEN 0
       ELSE IF current_ts - base_ts > 0
            THEN ((current_ts - base_ts) * SpeedUnit) \div Divisor(worker)
            ELSE 0

\* line 722, sleep_s = target_elapsed - (time.perf_counter() - started):
\* anything from nothing to the whole of target_elapsed, by the time that
\* has passed since the first event
SleepTimes(worker) == IF timed THEN 0..TargetElapsed(worker) ELSE {0}

\* lines 714-722: first epoch check of an iteration, then the length of the
\* timing sleep
WorkerCheck1(w) ==
    /\ InBlock(WorkerThread(w), "replay_state_lock")
    /\ workers[w].pc = "check1"
    /\ \E sleep_s \in SleepTimes(workers[w]):
          workers' = [workers EXCEPT ![w] =
              IF SessionInactive(replay_state, workers[w].session_id)
              THEN Terminated(workers[w], "exited")
              ELSE [workers[w] EXCEPT !.pc = "sleep", !.sleep_left = sleep_s]]
    /\ locks' = Released("replay_state_lock")
    /\ UNCHANGED <<timed, observers, trace_files,
                   replay_state, replay_connected_clients, REPLAY_NO_CLIENT_GATE,
                   command_history, handlers, replay_events, budget,
                   last_stop, producers>>

\* lines 723-724, time.sleep(sleep_s) in progress: a tick of the sleep
\* passes. The call looks at nothing but the clock.
WorkerTick(w) ==
    /\ timed
    /\ workers[w].pc = "sleep"
    /\ workers[w].sleep_left > 0
    /\ HoldsNothing(WorkerThread(w))
    /\ workers' = [workers EXCEPT ![w].sleep_left = @ - 1]
    /\ UNCHANGED <<timed, locks, observers, trace_files, replay_state,
                   replay_connected_clients, REPLAY_NO_CLIENT_GATE,
                   command_history, handlers, replay_events, budget,
                   last_stop, producers>>

\* lines 723-728: the timing sleep (one uninterrupted time.sleep call) is
\* over, then the epoch check made on waking
WorkerSleep(w) ==
    /\ InBlock(WorkerThread(w), "replay_state_lock")
    /\ workers[w].pc = "sleep"
    /\ workers[w].sleep_left = 0
    /\ SetWorker(w, IF SessionInactive(replay_state, workers[w].session_id)
                    THEN "exited" ELSE "wait_state")
    /\ locks' = Released("replay_state_lock")
    /\ UNCHANGED <<timed, observers, trace_files,
                   replay_state, replay_connected_clients, REPLAY_NO_CLIENT_GATE,
                   command_history, handlers, replay_events, budget,
                   last_stop, producers>>

\* mutant: a presence check that waits for an observer whatever the gate
SkipsWait_Never(no_client_gate) == FALSE

\* line 693, `if REPLAY_NO_CLIENT_GATE:`: the wait for an observer is skipped
SkipsWait(no_client_gate) == no_client_gate

\* _wait_for_replay_client, lines 693-701: the check under replay_state_lock
WaitCheckState(w) ==
    /\ InBlock(WorkerThread(w), "replay_state_lock")
    /\ workers[w].pc = "wait_state"
    /\ SetWorker(w, IF SessionInactive(replay_state, workers[w].session_id)
                      THEN "abandoned"
                    ELSE IF SkipsWait(REPLAY_NO_CLIENT_GATE)
                         THEN "emit" ELSE "wait_cv")
    /\ locks' = Released("replay_state_lock")
    /\ UNCHANGED <<timed, observers, trace_files,
                   replay_state, replay_connected_clients, REPLAY_NO_CLIENT_GATE,
                   command_history, handlers, replay_events, budget,
                   last_stop, producers>>

\* _wait_for_replay_client, lines 702-705: under replay_clients_cv, return
\* True when an observer is connected, else enter the timed wait
WaitCheckClients(w) ==
    /\ InBlock(WorkerThread(w), "replay_clients_lock")
    /\ workers[w].pc = "wait_cv"
    /\ workers' = [workers EXCEPT
                     ![w].pc = IF replay_connected_clients > 0
                               THEN "emit" ELSE "cv_waiting",
                     ![w].notified = FALSE]
    /\ locks' = Released("replay_clients_lock")
    /\ UNCHANGED <<timed, observers, trace_files,
                   replay_state, replay_connected_clients, REPLAY_NO_CLIENT_GATE,
                   command_history, handlers, replay_events, budget,
                   last_stop, producers>>

\* line 705 returning: back to the top of the while loop
WaitWake(w) ==
    /\ InBlock(WorkerThread(w), "replay_clients_lock")
    /\ workers[w].pc = "cv_waiting"
    /\ CvWaitReturns(workers[w])
    /\ workers' = [workers EXCEPT ![w].pc = "wait_state", ![w].notified = FALSE]
    /\ locks' = Released("replay_clients_lock")
    /\ UNCHANGED <<timed, observers, trace_files,
                   replay_state, replay_connected_clients, REPLAY_NO_CLIENT_GATE,
                   command_history, handlers, replay_events, budget,
                   last_stop, producers>>

\* lines 732-740: socketio.emit('replay_event', payload)
ReplayEventPayload(worker) ==
    [session_id |-> worker.session_id, index |-> worker.idx,
     total |-> Len(worker.events), event |-> worker.events[worker.idx + 1],
     events_path |-> worker.events_path]

EmitEvent(w) ==
    /\ workers[w].pc = "emit"
    /\ replay_events' = [replay_events EXCEPT ![workers[w].session_id] =
                            Append(@, ReplayEventPayload(workers[w]))]
    /\ SetWorker(w, "log")
    /\ UNCHANGED <<timed, locks, observers, trace_files,
                   replay_state, replay_connected_clients, REPLAY_NO_CLIENT_GATE,
                   command_history, handlers, budget, last_stop, producers>>

\* lines 741-746: log_command('agent', ...)
LogEvent(w) ==
    /\ workers[w].pc = "log"
    /\ command_history' = log_command(command_history, "agent",
            _format_event_command(workers[w].events[workers[w].idx + 1]))
    /\ SetWorker(w, "update")
    /\ UNCHANGED <<timed, locks, observers, trace_files,
                   replay_state, replay_connected_clients, REPLAY_NO_CLIENT_GATE,
                   handlers, replay_events, budget,
                   last_stop, producers>>

\* mutant: a loop that does not advance its index
NextIteration_Repeat(worker) == [worker EXCEPT !.pc = "check1"]

\* line 713, for idx, event in enumerate(events): the next index, or the end
\* of the loop
NextIteration(worker) ==
    [worker EXCEPT !.idx = worker.idx + 1,
                   !.pc = IF worker.idx + 1 < Len(worker.events)
                          THEN "check1" ELSE "complete"]

\* lines 747-751: the per-event update, then the next iteration
UpdateEvent(w) ==
    /\ InBlock(WorkerThread(w), "replay_state_lock")
    /\ workers[w].pc = "update"
    /\ replay_state' = EventUpdate(replay_state, workers[w].idx,
                                   workers[w].events[workers[w].idx + 1])
    /\ workers' = [workers EXCEPT ![w] = NextIteration(workers[w])]
    /\ last_stop' = <<>>
    /\ locks' = Released("replay_state_lock")
    /\ UNCHANGED <<timed, observers, trace_files,
                   replay_connected_clients, REPLAY_NO_CLIENT_GATE,
                   command_history, handlers, replay_events, budget, producers>>

\* lines 753-758: the terminal update after the loop
WorkerComplete(w) ==
    /\ InBlock(WorkerThread(w), "replay_state_lock")
    /\ workers[w].pc = "complete"
    /\ replay_state' = CompletedUpdate(replay_state)
    /\ SetWorker(w, "completed")
    /\ last_stop' = <<>>
    /\ locks' = Released("replay_state_lock")
    /\ UNCHANGED <<timed, observers, trace_files,
                   replay_connected_clients, REPLAY_NO_CLIENT_GATE,
                   command_history, handlers, replay_events, budget, producers>>

WorkerStep(w) ==
    \/ WorkerCheck1(w)
    \/ WorkerSleep(w)
    \/ WaitCheckState(w)
    \/ WaitCheckClients(w)
    \/ WaitWake(w)
    \/ EmitEvent(w)
    \/ LogEvent(w)
    \/ UpdateEvent(w)
    \/ WorkerComplete(w)

WorkerTerminated(worker) == worker.pc \in TerminalPcs

\* A call inside the loop raises: time.sleep (line 724, OverflowError when
\* the gap between two timestamps is out of range), socketio.emit (line 740)
\* or log_command (line 741). _replay_worker has no try/except and the
\* thread is started with the function as its target: the exception ends
\* the thread and nothing else is run.
WorkerRaises(w) ==
    /\ workers[w].pc \in {"sleep", "emit", "log"}
    /\ SetWorker(w, "crashed")
    /\ UNCHANGED <<timed, locks, observers, trace_files,
                   replay_state, replay_connected_clients, REPLAY_NO_CLIENT_GATE,
                   command_history, handlers, replay_events, budget,
                   last_stop, producers>>

----------------------------------------------------------------------------
(* Request handlers: replay_start, replay_stop *)

\* notify_all on replay_clients_cv: every thread in the wait is notified
NotifyAll(ws) ==
    [w \in DOMAIN ws |->
        IF ws[w].pc = "cv_waiting" THEN [ws[w] EXCEPT !.notified = TRUE] ELSE ws[w]]

\* mutant: a start that never stops the running session first
BeginReplayStart_NoStop(h, path) ==
    /\ IF _resolve_replay_events_path(path) = None
       THEN HoldsNothing(HandlerThread(h))
       ELSE InBlock(HandlerThread(h), "replay_state_lock")
    /\ handlers[h].pc = "idle"
    /\ Admits(h)
    /\ budget' = budget - 1
    /\ LET events_path == _resolve_replay_events_path(path) IN
       handlers' = [handlers EXCEPT ![h] =
           IF events_path = None
           THEN [IdleHandler EXCEPT !.status = 404]
           ELSE [IdleHandler EXCEPT !.op = "start", !.path = events_path,
                    !.reason = "restarted", !.pc = "start_lock"]]
    /\ locks' = IF _resolve_replay_events_path(path) = None
                THEN locks ELSE Released("replay_state_lock")
    /\ UNCHANGED <<timed, observers, trace_files,
                   replay_state, replay_connected_clients, REPLAY_NO_CLIENT_GATE,
                   command_history, workers, replay_events,
                   last_stop, producers>>

\* replay_start, lines 1141-1156: read the speed, resolve the path (404 when
\* not found), then
\* read `running` from a snapshot to decide whether to stop first
BeginReplayStartAt(h, path, speed_raw) ==
    /\ IF _resolve_replay_events_path(path) = None
       THEN HoldsNothing(HandlerThread(h))
       ELSE InBlock(HandlerThread(h), "replay_state_lock")
    /\ handlers[h].pc = "idle"
    /\ Admits(h)
    /\ budget' = budget - 1
    /\ LET events_path == _resolve_replay_events_path(path) IN
       handlers' = [handlers EXCEPT ![h] =
           IF events_path = None
           THEN [IdleHandler EXCEPT !.status = 404]
           ELSE [IdleHandler EXCEPT !.op = "start", !.path = events_path,
                    !.speed = RequestedSpeed(speed_raw),
                    !.reason = "restarted",
                    !.pc = IF replay_state.running
                           THEN "stop_lock" ELSE "start_lock"]]
    /\ locks' = IF _resolve_replay_events_path(path) = None
                THEN locks ELSE Released("replay_state_lock")
    /\ UNCHANGED <<timed, observers, trace_files,
                   replay_state, replay_connected_clients, REPLAY_NO_CLIENT_GATE,
                   command_history, workers, replay_events,
                   last_stop, producers>>

\* a start request that names no speed
BeginReplayStart(h, path) == BeginReplayStartAt(h, path, MissingSpeed)

\* replay_stop, line 1174
BeginReplayStop(h) ==
    /\ HoldsNothing(HandlerThread(h))
    /\ handlers[h].pc = "idle"
    /\ Admits(h)
    /\ budget' = budget - 1
    /\ handlers' = [handlers EXCEPT ![h] =
           [IdleHandler EXCEPT !.op = "stop", !.reason = "stopped",
                               !.pc = "stop_lock"]]
    /\ UNCHANGED <<timed, locks, observers, trace_files,
                   replay_state, replay_connected_clients, REPLAY_NO_CLIENT_GATE,
                   command_history, workers, replay_events,
                   last_stop, producers>>

\* _stop_replay_session, lines 795-801: the section under replay_state_lock
StopLocked(h) ==
    /\ InBlock(HandlerThread(h), "replay_state_lock")
    /\ handlers[h].pc = "stop_lock"
    /\ replay_state' = StopUpdate(replay_state, handlers[h].reason)
    /\ handlers' = [handlers EXCEPT ![h].snapshot = <<replay_state'>>,
                                    ![h].pc = "stop_notify"]
    /\ last_stop' = <<handlers[h].reason>>
    /\ locks' = Released("replay_state_lock")
    /\ UNCHANGED <<timed, observers, trace_files,
                   replay_connected_clients, REPLAY_NO_CLIENT_GATE,
                   command_history, workers, replay_events, budget, producers>>

\* _stop_replay_session, lines 802-805: notify_all, emit the snapshot and
\* return it; replay_stop answers with it, replay_start goes on to start
StopNotify(h) ==
    /\ InBlock(HandlerThread(h), "replay_clients_lock")
    /\ handlers[h].pc = "stop_notify"
    /\ workers' = NotifyAll(workers)
    /\ handlers' = [handlers EXCEPT ![h] =
           IF handlers[h].op = "start"
           THEN [handlers[h] EXCEPT !.pc = "start_lock"]
           ELSE [IdleHandler EXCEPT !.status = 200]]
    /\ locks' = Released("replay_clients_lock")
    /\ UNCHANGED <<timed, observers, trace_files,
                   replay_state, replay_connected_clients, REPLAY_NO_CLIENT_GATE,
                   command_history, replay_events, budget,
                   last_stop, producers>>

\* mutant: a start that accepts a trace without events
StartRaises_AcceptsEmpty(loaded) == ~loaded.ok

\* _start_replay_session, lines 762-764: the load raised, or
\* `if not events: raise ValueError('events file is empty')`
StartRaises(loaded) == ~loaded.ok \/ loaded.events = <<>>

\* _start_replay_session, lines 762-782: load the events, then the section
\* under replay_state_lock; a load error or an empty trace raises, and
\* replay_start (lines 1161-1169) records the failure and answers 400
StartLocked(h) ==
    /\ InBlock(HandlerThread(h), "replay_state_lock")
    /\ handlers[h].pc = "start_lock"
    /\ LET loaded == _load_replay_events(handlers[h].path)
           error  == IF ~loaded.ok THEN loaded.error ELSE "events file is empty"
       IN IF ~StartRaises(loaded)
          THEN /\ replay_state' =
                    [StartUpdate(replay_state, handlers[h].path, loaded.events)
                        EXCEPT !.speed = StoredSpeed(handlers[h].speed)]
               /\ handlers' = [handlers EXCEPT ![h].snapshot = <<replay_state'>>,
                                               ![h].pc = "start_spawn"]
          ELSE /\ replay_state' = FailedStartUpdate(replay_state,
                                                    handlers[h].path, error)
               /\ handlers' = [handlers EXCEPT ![h] =
                                  [IdleHandler EXCEPT !.status = 400]]
    /\ last_stop' = <<>>
    /\ locks' = Released("replay_state_lock")
    /\ UNCHANGED <<timed, observers, trace_files,
                   replay_connected_clients, REPLAY_NO_CLIENT_GATE,
                   command_history, workers, replay_events, budget, producers>>

\* mutant: a worker bound to the epoch read again when the thread is made
SpawnEpoch_ReadsLive(h) == replay_state.session_id

\* line 787, args=(snapshot['session_id'], ...): the epoch the worker is
\* bound to is the one of the snapshot taken in the locked section
SpawnEpoch(h) == handlers[h].snapshot[1].session_id

\* _start_replay_session, lines 784-791: emit the snapshot, start the worker
\* thread bound to snapshot['session_id'], return the snapshot
StartSpawn(h) ==
    /\ handlers[h].pc = "start_spawn"
    /\ workers' = Append(workers,
            [NewWorker(SpawnEpoch(h), handlers[h].path,
                       _load_replay_events(handlers[h].path).events)
                EXCEPT !.speed = handlers[h].snapshot[1].speed])
    /\ handlers' = [handlers EXCEPT ![h] = [IdleHandler EXCEPT !.status = 200]]
    /\ UNCHANGED <<timed, locks, observers, trace_files,
                   replay_state, replay_connected_clients, REPLAY_NO_CLIENT_GATE,
                   command_history, replay_events, budget,
                   last_stop, producers>>

----------------------------------------------------------------------------
(* Observers: handle_connect, handle_disconnect *)

\* handle_connect, lines 1382-1384
Connect ==
    /\ LockFree("replay_clients_lock")
    /\ replay_connected_clients < MaxClients
    /\ replay_connected_clients' = replay_connected_clients + 1
    /\ workers' = NotifyAll(workers)
    /\ UNCHANGED <<timed, locks, observers, trace_files,
                   replay_state, REPLAY_NO_CLIENT_GATE, command_history,
                   handlers, replay_events, budget,
                   last_stop, producers>>

\* mutant: a decrement without the floor
Decrement_NoFloor(count) == count - 1

\* line 1399: max(0, replay_connected_clients - 1)
Decrement(count) == IF 0 >= count - 1 THEN 0 ELSE count - 1

\* handle_disconnect, lines 1398-1400
Disconnect ==
    /\ LockFree("replay_clients_lock")
    /\ replay_connected_clients' = Decrement(replay_connected_clients)
    /\ workers' = NotifyAll(workers)
    /\ UNCHANGED <<timed, locks, observers, trace_files,
                   replay_state, REPLAY_NO_CLIENT_GATE, command_history,
                   handlers, replay_events, budget,
                   last_stop, producers>>

\* line 1388, command_history[-20:]
Window_Oldest(history) ==
    SubSeq(history, 1,
           IF Len(history) > HISTORY_WINDOW THEN HISTORY_WINDOW
           ELSE Len(history))

Window(history) ==
    SubSeq(history,
           IF Len(history) > HISTORY_WINDOW
           THEN Len(history) - HISTORY_WINDOW + 1 ELSE 1,
           Len(history))

\* handle_connect step by step. Lines 1382-1384: count the observer in and
\* notify, under replay_clients_cv
ObserverConnect(o) ==
    /\ InBlock(ObserverThread(o), "replay_clients_lock")
    /\ observers[o].pc = "out"
    /\ replay_connected_clients' = replay_connected_clients + 1
    /\ workers' = NotifyAll(workers)
    /\ observers' = [observers EXCEPT ![o].pc = "connect_history"]
    /\ locks' = Released("replay_clients_lock")
    /\ UNCHANGED <<timed, trace_files, replay_state, REPLAY_NO_CLIENT_GATE,
                   command_history, handlers, replay_events, budget,
                   last_stop, producers>>

\* lines 1385-1390: emit('connected', {..., 'history': command_history[-20:]})
ObserverHistory(o) ==
    /\ observers[o].pc = "connect_history"
    /\ observers' = [observers EXCEPT ![o].pc = "connect_state",
                                      ![o].history = Window(command_history)]
    /\ UNCHANGED <<timed, locks, trace_files, replay_state, replay_connected_clients,
                   REPLAY_NO_CLIENT_GATE, command_history, workers, handlers,
                   replay_events, budget, last_stop, producers>>

\* line 1391: emit('replay_state', _replay_state_snapshot())
ObserverState(o) ==
    /\ InBlock(ObserverThread(o), "replay_state_lock")
    /\ observers[o].pc = "connect_state"
    /\ observers' = [observers EXCEPT ![o].pc = "in",
                                      ![o].state = <<replay_state>>]
    /\ locks' = Released("replay_state_lock")
    /\ UNCHANGED <<timed, trace_files, replay_state, replay_connected_clients,
                   REPLAY_NO_CLIENT_GATE, command_history, workers, handlers,
                   replay_events, budget, last_stop, producers>>

\* handle_disconnect, lines 1398-1400, for an observer whose connect is done
ObserverDisconnect(o) ==
    /\ InBlock(ObserverThread(o), "replay_clients_lock")
    /\ observers[o].pc = "in"
    /\ replay_connected_clients' = Decrement(replay_connected_clients)
    /\ workers' = NotifyAll(workers)
    /\ observers' = [observers EXCEPT ![o] = NoObservers[o]]
    /\ locks' = Released("replay_clients_lock")
    /\ UNCHANGED <<timed, trace_files, replay_state, REPLAY_NO_CLIENT_GATE,
                   command_history, handlers, replay_events, budget,
                   last_stop, producers>>

ObserverStep(o) ==
    \/ ObserverConnect(o)
    \/ ObserverHistory(o)
    \/ ObserverState(o)
    \/ ObserverDisconnect(o)

----------------------------------------------------------------------------
(* Steps that exist where the locks are traced *)

\* replay_status, lines 1135-1137: the answer is _replay_state_snapshot(),
\* `with replay_state_lock: return dict(replay_state)`
ReplayStatus(h) ==
    /\ InBlock(HandlerThread(h), "replay_state_lock")
    /\ handlers[h].pc = "idle"
    /\ Admits(h)
    /\ budget' = budget - 1
    /\ handlers' = [handlers EXCEPT ![h] =
           [IdleHandler EXCEPT !.op = "status", !.status = 200,
                               !.snapshot = <<replay_state>>]]
    /\ locks' = Released("replay_state_lock")
    /\ UNCHANGED <<timed, observers, trace_files, replay_state,
                   replay_connected_clients, REPLAY_NO_CLIENT_GATE,
                   command_history, workers, replay_events,
                   last_stop, producers>>

\* _stop_replay_session, lines 796-800: the five assignments of the locked
\* section, one statement each, in this order
StopFields == <<"running", "completed", "session_id", "finished_at", "error">>

StopWriteField(h) ==
    /\ locks.explicit
    /\ InBlock(HandlerThread(h), "replay_state_lock")
    /\ handlers[h].pc = "stop_lock"
    /\ handlers[h].written < Len(StopFields)
    /\ LET field == StopFields[handlers[h].written + 1] IN
       replay_state' = [replay_state EXCEPT ![field] =
                           StopUpdate(replay_state, handlers[h].reason)[field]]
    /\ handlers' = [handlers EXCEPT ![h].written = @ + 1]
    /\ last_stop' = <<>>
    /\ UNCHANGED <<timed, locks, observers, trace_files, replay_connected_clients,
                   REPLAY_NO_CLIENT_GATE, command_history, workers,
                   replay_events, budget, producers>>

\* line 801, snapshot = dict(replay_state), and the end of the locked section
StopSnapshot(h) ==
    /\ locks.explicit
    /\ InBlock(HandlerThread(h), "replay_state_lock")
    /\ handlers[h].pc = "stop_lock"
    /\ handlers[h].written = Len(StopFields)
    /\ handlers' = [handlers EXCEPT ![h].snapshot = <<replay_state>>,
                                    ![h].pc = "stop_notify",
                                    ![h].written = 0]
    /\ last_stop' = <<handlers[h].reason>>
    /\ locks' = Released("replay_state_lock")
    /\ UNCHANGED <<timed, observers, trace_files, replay_state,
                   replay_connected_clients, REPLAY_NO_CLIENT_GATE,
                   command_history, workers, replay_events, budget, producers>>

\* the lock a thread is about to take, by the place it is at
NeededLock(pc) ==
    CASE pc \in {"check1", "sleep", "wait_state", "update", "complete",
                 "idle", "stop_lock", "start_lock", "connect_state"}
            -> "replay_state_lock"
      [] pc \in {"wait_cv", "cv_waiting", "stop_notify", "out", "in"}
            -> "replay_clients_lock"
      [] OTHER -> "none"

\* `with lock:` entered (for a worker at "sleep": time.sleep has returned;
\* at "cv_waiting": Condition.wait takes the lock again before it returns)
Acquire(thread, pc) ==
    /\ locks.explicit
    /\ NeededLock(pc) \in LockNames
    /\ LockFree(NeededLock(pc))
    /\ locks' = [locks EXCEPT ![NeededLock(pc)] = thread]
    /\ UNCHANGED <<timed, observers, trace_files, replay_state,
                   replay_connected_clients, REPLAY_NO_CLIENT_GATE,
                   command_history, workers, handlers, replay_events, budget,
                   last_stop, producers>>

\* mutant: a second epoch check entered while time.sleep is still running
SleepOver_Early(worker) == TRUE

\* line 724: time.sleep(sleep_s) has returned
SleepOver(worker) == worker.sleep_left = 0

WorkerAcquire(w) ==
    /\ workers[w].pc = "cv_waiting" => CvWaitReturns(workers[w])
    /\ workers[w].pc = "sleep" => SleepOver(workers[w])
    /\ Acquire(WorkerThread(w), workers[w].pc)

HandlerAcquire(h) ==
    /\ handlers[h].pc = "idle" => Admits(h)
    /\ Acquire(HandlerThread(h), handlers[h].pc)

ObserverAcquire(o) == Acquire(ObserverThread(o), observers[o].pc)

----------------------------------------------------------------------------
(* Specification *)

StartPaths == {"long", "short", "empty", "scalar", "missing"}

Next ==
    \/ \E w \in Workers: WorkerStep(w)
    \/ \E h \in DOMAIN handlers: \E path \in StartPaths: BeginReplayStart(h, path)
    \/ \E h \in DOMAIN handlers: BeginReplayStop(h)
    \/ \E h \in DOMAIN handlers: StopLocked(h)
    \/ \E h \in DOMAIN handlers: StopNotify(h)
    \/ \E h \in DOMAIN handlers: StartLocked(h)
    \/ \E h \in DOMAIN handlers: StartSpawn(h)
    \/ Connect
    \/ Disconnect

Spec == Init /\ [][Next]_vars

\* The scheduler runs every started worker thread: a worker that can take a
\* step eventually takes one. Requests and observer connects/disconnects
\* come from outside and are not forced. Liveness is checked on the runs of
\* one request fewer than Spec accepts.
FairInit == InitWith(MaxRequests - 1)

FairSpec ==
    /\ FairInit
    /\ [][Next]_vars
    /\ \A w \in 1..MaxWorkers: WF_vars(w \in Workers /\ WorkerStep(w))

\* The replay engine with calls of the worker's loop that may raise
FaultNext == Next \/ \E w \in Workers: WorkerRaises(w)

FaultSpec == FairInit /\ [][FaultNext]_vars

\* The server handles each request on a thread of its own (line 67,
\* async_mode='threading'): here one request thread more than in Spec, so
\* that two requests are in progress at the same time, over the runs of one
\* request fewer than Spec accepts.
ConcHandlers == 1..(NumHandlers + 1)

ConcInit ==
    /\ replay_state = InitialReplayState
    /\ replay_connected_clients = 0
    /\ REPLAY_NO_CLIENT_GATE \in BOOLEAN
    /\ command_history = <<>>
    /\ workers = <<>>
    /\ handlers = [h \in ConcHandlers |-> IdleHandler]
    /\ replay_events = [sid \in SessionIds |-> <<>>]
    /\ budget = MaxRequests - 1
    /\ last_stop = <<>>
    /\ producers = [p \in Sources |-> IdleProducer]
    /\ trace_files = DefaultTraceFiles
    /\ locks = UntracedLocks
    /\ observers = NoObservers
    /\ timed = FALSE

ConcSpec == ConcInit /\ [][Next]_vars

\* ConcSpec with the worker threads scheduled fairly, as in FairSpec
ConcFairSpec ==
    /\ ConcInit
    /\ [][Next]_vars
    /\ \A w \in 1..MaxWorkers: WF_vars(w \in Workers /\ WorkerStep(w))

\* The loader on any trace document: the file "long" holds a document drawn
\* from TraceDocs, and one request is served.
TimestampValues == {<<>>, <<NaN>>} \cup {<<t>>: t \in 0..MaxTimestamp}

RecordChoices ==
    {[is_dict |-> FALSE, timestamp |-> <<>>]}
        \cup {[is_dict |-> TRUE, timestamp |-> ts]: ts \in TimestampValues}

ItemLists ==
    UNION {{[i \in 1..n |-> TraceRecord(i, c[i].is_dict, c[i].timestamp)]:
                c \in [1..n -> RecordChoices]}: n \in 0..MaxRecords}

TraceDocs ==
    {ListDoc(items): items \in ItemLists}
        \cup {DictDoc(ListValue(items), Absent): items \in ItemLists}
        \cup {DictDoc(Absent, ListValue(items)): items \in ItemLists}
        \cup {DictDoc(Other, ListValue(items)): items \in ItemLists}
        \cup {DictDoc(ListValue(items), ListValue(ArrayDoc(MaxEvents).items)):
                 items \in ItemLists}
        \cup {DictDoc(Absent, Absent), DictDoc(Other, Other),
                DictDoc(Absent, Other), ScalarDoc}

LoaderInit ==
    /\ replay_state = InitialReplayState
    /\ replay_connected_clients = 0
    /\ REPLAY_NO_CLIENT_GATE \in BOOLEAN
    /\ command_history = <<>>
    /\ workers = <<>>
    /\ handlers = [h \in Handlers |-> IdleHandler]
    /\ replay_events = [sid \in SessionIds |-> <<>>]
    /\ budget = 1
    /\ last_stop = <<>>
    /\ producers = [p \in Sources |-> IdleProducer]
    /\ \E doc \in TraceDocs:
          trace_files = [DefaultTraceFiles EXCEPT !["long"] = doc]
    /\ locks = UntracedLocks
    /\ observers = NoObservers
    /\ timed = FALSE

LoaderSpec == LoaderInit /\ [][Next]_vars

\* The engine with the locks traced: every `with` block is entered in a
\* step of its own, the stop writes its fields one statement at a time, a
\* request may be a status request, two requests may be in progress at once
\* and the observers connect step by step; one request fewer than in Spec
\* is served.
LockInit ==
    /\ replay_state = InitialReplayState
    /\ replay_connected_clients = 0
    /\ REPLAY_NO_CLIENT_GATE \in BOOLEAN
    /\ command_history = <<>>
    /\ workers = <<>>
    /\ handlers = [h \in ConcHandlers |-> IdleHandler]
    /\ replay_events = [sid \in SessionIds |-> <<>>]
    /\ budget = MaxRequests - 1
    /\ last_stop = <<>>
    /\ producers = [p \in Sources |-> IdleProducer]
    /\ trace_files = DefaultTraceFiles
    /\ locks = TracedLocks
    /\ observers = NoObservers
    /\ timed = FALSE

\* the trace files requested where the locks are traced
LockPaths == {"short", "empty", "missing"}

LockNext ==
    \/ \E w \in Workers: WorkerStep(w)
    \/ \E w \in Workers: WorkerAcquire(w)
    \/ \E h \in DOMAIN handlers: HandlerAcquire(h)
    \/ \E h \in DOMAIN handlers: \E path \in LockPaths: BeginReplayStart(h, path)
    \/ \E h \in DOMAIN handlers: BeginReplayStop(h)
    \/ \E h \in DOMAIN handlers: ReplayStatus(h)
    \/ \E h \in DOMAIN handlers: StopWriteField(h)
    \/ \E h \in DOMAIN handlers: StopSnapshot(h)
    \/ \E h \in DOMAIN handlers: StopNotify(h)
    \/ \E h \in DOMAIN handlers: StartLocked(h)
    \/ \E h \in DOMAIN handlers: StartSpawn(h)
    \/ \E o \in DOMAIN observers: ObserverAcquire(o)
    \/ \E o \in DOMAIN observers: ObserverStep(o)

LockSpec == LockInit /\ [][LockNext]_vars

\* The engine with the timing sleeps traced, serving one request that may
\* name any speed
SpeedInit ==
    /\ replay_state = InitialReplayState
    /\ replay_connected_clients = 0
    /\ REPLAY_NO_CLIENT_GATE \in BOOLEAN
    /\ command_history = <<>>
    /\ workers = <<>>
    /\ handlers = [h \in Handlers |-> IdleHandler]
    /\ replay_events = [sid \in SessionIds |-> <<>>]
    /\ budget = 1
    /\ last_stop = <<>>
    /\ producers = [p \in Sources |-> IdleProducer]
    /\ trace_files = DefaultTraceFiles
    /\ locks = UntracedLocks
    /\ observers = NoObservers
    /\ timed = TRUE

SpeedPaths == {"long", "missing"}

SpeedNext ==
    \/ \E w \in Workers: WorkerStep(w)
    \/ \E w \in Workers: WorkerTick(w)
    \/ \E h \in DOMAIN handlers: \E path \in SpeedPaths:
          \E speed_raw \in SpeedInputs: BeginReplayStartAt(h, path, speed_raw)
    \/ \E h \in DOMAIN handlers: BeginReplayStop(h)
    \/ \E h \in DOMAIN handlers: StopLocked(h)
    \/ \E h \in DOMAIN handlers: StopNotify(h)
    \/ \E h \in DOMAIN handlers: StartLocked(h)
    \/ \E h \in DOMAIN handlers: StartSpawn(h)
    \/ Connect
    \/ Disconnect

SpeedSpec == SpeedInit /\ [][SpeedNext]_vars

\* The engine with the locks and the timing sleeps traced, serving one
\* request, while the web UI logs its commands to a history that is one
\* entry short of full
IndepInit ==
    /\ replay_state = InitialReplayState
    /\ replay_connected_clients = 0
    /\ REPLAY_NO_CLIENT_GATE \in BOOLEAN
    /\ command_history = Logged(MAX_HISTORY - 1)
    /\ workers = <<>>
    /\ handlers = [h \in ConcHandlers |-> IdleHandler]
    /\ replay_events = [sid \in SessionIds |-> <<>>]
    /\ budget = 1
    /\ last_stop = <<>>
    /\ producers = [p \in Sources |->
            [pc |-> "idle",
             sent |-> IF p = "terminal" THEN MAX_HISTORY - 1 ELSE 0,
             todo |-> IF p = "webui" THEN MaxAppends ELSE 0]]
    /\ trace_files = DefaultTraceFiles
    /\ locks = TracedLocks
    /\ observers = NoObservers
    /\ timed = TRUE

IndepPaths == {"long", "missing"}

IndepNext ==
    \/ \E w \in Workers: WorkerStep(w)
    \/ \E w \in Workers: WorkerTick(w)
    \/ \E w \in Workers: WorkerAcquire(w)
    \/ \E h \in DOMAIN handlers: HandlerAcquire(h)
    \/ \E h \in DOMAIN handlers: \E path \in IndepPaths: BeginReplayStart(h, path)
    \/ \E h \in DOMAIN handlers: BeginReplayStop(h)
    \/ \E h \in DOMAIN handlers: ReplayStatus(h)
    \/ \E h \in DOMAIN handlers: StopWriteField(h)
    \/ \E h \in DOMAIN handlers: StopSnapshot(h)
    \/ \E h \in DOMAIN handlers: StopNotify(h)
    \/ \E h \in DOMAIN handlers: StartLocked(h)
    \/ \E h \in DOMAIN handlers: StartSpawn(h)
    \/ \E o \in DOMAIN observers: ObserverAcquire(o)
    \/ \E o \in DOMAIN observers: ObserverStep(o)
    \/ \E p \in Sources: HistoryStep(p)

IndepSpec == IndepInit /\ [][IndepNext]_vars

\* The engine with the length of the timing sleeps traced, over the runs
\* of one request fewer than Spec accepts.
TimedInit ==
    /\ replay_state = InitialReplayState
    /\ replay_connected_clients = 0
    /\ REPLAY_NO_CLIENT_GATE \in BOOLEAN
    /\ command_history = <<>>
    /\ workers = <<>>
    /\ handlers = [h \in Handlers |-> IdleHandler]
    /\ replay_events = [sid \in SessionIds |-> <<>>]
    /\ budget = MaxRequests - 1
    /\ last_stop = <<>>
    /\ producers = [p \in Sources |-> IdleProducer]
    /\ trace_files = DefaultTraceFiles
    /\ locks = UntracedLocks
    /\ observers = NoObservers
    /\ timed = TRUE

TimedNext == Next \/ \E w \in Workers: WorkerTick(w)

TimedSpec == TimedInit /\ [][TimedNext]_vars

\* Observers connecting step by step while the web terminal logs commands
\* and one replay request is served. The history starts one entry short of
\* the window sent on connect, or full.
ConnectLogged == {HISTORY_WINDOW - 1, MAX_HISTORY}

ConnectInit ==
    /\ replay_state = InitialReplayState
    /\ replay_connected_clients = 0
    /\ REPLAY_NO_CLIENT_GATE = FALSE
    /\ \E logged \in ConnectLogged:
          /\ command_history = Logged(logged)
          /\ producers = [p \in Sources |->
                [pc |-> "idle",
                 sent |-> IF p = "terminal" THEN logged ELSE 0,
                 todo |-> IF p = "webui" THEN MaxAppends ELSE 0]]
    /\ workers = <<>>
    /\ handlers = [h \in Handlers |-> IdleHandler]
    /\ replay_events = [sid \in SessionIds |-> <<>>]
    /\ budget = 1
    /\ last_stop = <<>>
    /\ trace_files = DefaultTraceFiles
    /\ locks = UntracedLocks
    /\ observers = NoObservers
    /\ timed = FALSE

ConnectPaths == {"short", "missing"}

ConnectNext ==
    \/ \E w \in Workers: WorkerStep(w)
    \/ \E h \in DOMAIN handlers: \E path \in ConnectPaths: BeginReplayStart(h, path)
    \/ \E h \in DOMAIN handlers: BeginReplayStop(h)
    \/ \E h \in DOMAIN handlers: StopLocked(h)
    \/ \E h \in DOMAIN handlers: StopNotify(h)
    \/ \E h \in DOMAIN handlers: StartLocked(h)
    \/ \E h \in DOMAIN handlers: StartSpawn(h)
    \/ \E o \in DOMAIN observers: ObserverStep(o)
    \/ \E p \in Sources: HistoryStep(p)

ConnectSpec == ConnectInit /\ [][ConnectNext]_vars

\* The history alone: no replay request is served. The terminal has made
\* `logged` calls of log_command one after the other, and every thread of
\* `todo` has that many calls still to make.
HistoryInitWith(logged, todo) ==
    /\ replay_state = InitialReplayState
    /\ replay_connected_clients = 0
    /\ REPLAY_NO_CLIENT_GATE = FALSE
    /\ command_history = Logged(logged)
    /\ workers = <<>>
    /\ handlers = [h \in Handlers |-> IdleHandler]
    /\ replay_events = [sid \in SessionIds |-> <<>>]
    /\ budget = 0
    /\ last_stop = <<>>
    /\ producers = [p \in Sources |->
            [pc |-> "idle",
             sent |-> IF p = "terminal" THEN logged ELSE 0,
             todo |-> todo[p]]]
    /\ trace_files = DefaultTraceFiles
    /\ locks = UntracedLocks
    /\ observers = NoObservers
    /\ timed = FALSE

HistoryNext == \E p \in Sources: HistoryStep(p)

\* the three sources append concurrently to a history that is nearly full
HistoryInit ==
    \E logged \in (MAX_HISTORY - MaxAppends)..MAX_HISTORY:
        HistoryInitWith(logged, [p \in Sources |-> MaxAppends])

HistorySpec == HistoryInit /\ [][HistoryNext]_vars

\* one caller appends MAX_HISTORY + MaxOverflow entries to an empty history
SingleCallerInit ==
    HistoryInitWith(0, [p \in Sources |->
        IF p = "terminal" THEN MAX_HISTORY + MaxOverflow ELSE 0])

SingleCallerSpec == SingleCallerInit /\ [][HistoryNext]_vars

-----------------------------------------------------------------------------
(* Timestamps of the history entries. A value that may be missing is a
   sequence of length 0 or 1. *)

\* the timestamps a caller supplies, and the readings of datetime.now()
CallerStamps == 1..MaxStamp

ServerClock == (MaxStamp + 1)..(2 * MaxStamp)

Optional(values) == {<<>>} \cup {<<v>>: v \in values}

\* lines 181-186
_timestamp_payload(now) == [timestamp |-> <<now>>, ts_ms |-> <<now * 1000>>]

\* terminal_notify, lines 1268-1281: the entry built from the request
TerminalNotifyEntry(command, ts, ts_ms, now) ==
    LET entry == [source |-> "terminal", command |-> command,
                  timestamp |-> ts, ts_ms |-> ts_ms]
    IN IF entry.timestamp = <<>> \/ entry.ts_ms = <<>>
       THEN [entry EXCEPT !.timestamp = _timestamp_payload(now).timestamp,
                          !.ts_ms = _timestamp_payload(now).ts_ms]
       ELSE entry

\* log_command, lines 191-197, and bash_notify, lines 1353-1359: the entry
\* is stamped with the server's clock
StampedEntry(source, command, now) ==
    [source |-> source, command |-> command,
     timestamp |-> _timestamp_payload(now).timestamp,
     ts_ms |-> _timestamp_payload(now).ts_ms]

\* lines 198-200 (1282-1284, 1360-1362) by one thread alone
Stored(history, entry) ==
    IF OverCapacity(Append(history, entry))
    THEN Evict(Append(history, entry)) ELSE Append(history, entry)

\* POST /api/terminal_notify with the optional 'timestamp' and 'ts_ms'
TerminalNotify(ts, ts_ms, now) ==
    /\ producers["terminal"].pc = "idle"
    /\ producers["terminal"].todo > 0
    /\ command_history' = Stored(command_history,
            TerminalNotifyEntry(producers["terminal"].sent + 1, ts, ts_ms, now))
    /\ producers' = [producers EXCEPT !["terminal"].sent = @ + 1,
                                      !["terminal"].todo = @ - 1]
    /\ UNCHANGED <<timed, locks, observers, trace_files,
                   replay_state, replay_connected_clients, REPLAY_NO_CLIENT_GATE,
                   workers, handlers, replay_events, budget, last_stop>>

\* log_command(source, ...) called by the web UI or by a replay worker
StampedLogCommand(p, now) ==
    /\ p # "terminal"
    /\ producers[p].pc = "idle"
    /\ producers[p].todo > 0
    /\ command_history' = Stored(command_history,
            StampedEntry(p, producers[p].sent + 1, now))
    /\ producers' = [producers EXCEPT ![p].sent = @ + 1, ![p].todo = @ - 1]
    /\ UNCHANGED <<timed, locks, observers, trace_files,
                   replay_state, replay_connected_clients, REPLAY_NO_CLIENT_GATE,
                   workers, handlers, replay_events, budget, last_stop>>

StampInit == HistoryInitWith(0, [p \in Sources |-> MaxAppends])

StampNext ==
    \/ \E ts \in Optional(CallerStamps):
          \E ts_ms \in Optional({t * 1000: t \in CallerStamps}):
             \E now \in ServerClock: TerminalNotify(ts, ts_ms, now)
    \/ \E p \in Sources: \E now \in ServerClock: StampedLogCommand(p, now)

StampSpec == StampInit /\ [][StampNext]_vars

----------------------------------------------------------------------------
(* Claims *)

\* C1: once the current session_id differs from the one a worker is bound to
\* (changed by a stop or a new start), no further 'replay_event' payload of
\* that old session is emitted.
C1_NoEmitAfterEpochChange ==
    [][\A sid \in SessionIds:
          replay_state.session_id # sid => replay_events'[sid] = replay_events[sid]]_vars

\* C2: a worker whose epoch is no longer current, or whose session is no
\* longer running, makes no change to the shared replay state.
C2_StaleWorkerWritesNothing ==
    [][\A w \in Workers:
          (SessionInactive(replay_state, workers[w].session_id) /\ WorkerStep(w))
             => replay_state' = replay_state]_vars

\* C3: events_sent <= events_total in every reachable state, and events_sent
\* never decreases while session_id stays the same.
C3_EventsSentBoundedMonotone ==
    /\ [](replay_state.events_sent <= replay_state.events_total)
    /\ [][replay_state'.session_id = replay_state.session_id
             => replay_state'.events_sent >= replay_state.events_sent]_vars

\* C4: the indices emitted for one session are 0,1,2,...,k-1 in this order,
\* with k at most the session's total: no skip, no duplicate.
C4_EmittedIndicesArePrefix ==
    \A sid \in SessionIds:
        \A i \in 1..Len(replay_events[sid]):
            /\ replay_events[sid][i].index = i - 1
            /\ i <= replay_events[sid][i].total

\* C4 witness: a session has emitted every event of the longest trace
C4_Witness ==
    \E sid \in SessionIds:
        /\ Len(replay_events[sid]) = MaxEvents
        /\ replay_events[sid][MaxEvents].total = MaxEvents

\* C5: with gating enabled, no replay event is emitted at a moment when no
\* observer is connected.
C5_NoEmitWithoutObserver ==
    [][(~REPLAY_NO_CLIENT_GATE /\ replay_events' # replay_events)
          => replay_connected_clients > 0]_vars

InPresenceWait(w) ==
    w \in Workers /\ workers[w].pc \in {"wait_state", "wait_cv", "cv_waiting"}

HasTerminated(w) == w \in Workers /\ WorkerTerminated(workers[w])

\* C6: with gating enabled, a worker blocked in the presence wait leaves the
\* wait once an observer is connected (unless the observers leave again),
\* every worker then runs to its end while an observer stays connected, and
\* no event is lost: none is broadcast while no observer is connected, so an
\* observer that reconnects finds every remaining event still to come.
C6_UnblockedAndNoneLost ==
    /\ \A w \in 1..MaxWorkers:
          (w \in Workers /\ workers[w].pc = "cv_waiting"
              /\ replay_connected_clients > 0)
            ~> (~InPresenceWait(w) \/ replay_connected_clients = 0)
    /\ \A w \in 1..MaxWorkers:
          (w \in Workers /\ ~REPLAY_NO_CLIENT_GATE)
            ~> (HasTerminated(w) \/ replay_connected_clients = 0)
    /\ [][\A sid \in SessionIds:
             (~REPLAY_NO_CLIENT_GATE
                 /\ Len(replay_events'[sid]) > Len(replay_events[sid]))
               => replay_connected_clients > 0]_vars

\* the liveness half of C6 alone
C6_Unblocked ==
    /\ \A w \in 1..MaxWorkers:
          (w \in Workers /\ workers[w].pc = "cv_waiting"
              /\ replay_connected_clients > 0)
            ~> (~InPresenceWait(w) \/ replay_connected_clients = 0)
    /\ \A w \in 1..MaxWorkers:
          (w \in Workers /\ ~REPLAY_NO_CLIENT_GATE)
            ~> (HasTerminated(w) \/ replay_connected_clients = 0)

\* C7: a worker that is in the presence wait when its session is stopped or
\* superseded terminates, also when the stop's notify_all came before the
\* worker entered the condition wait; while no observer is connected it
\* leaves the wait only by returning False (abandon).
C7_NoDeadlockOnShutdown ==
    /\ \A w \in 1..MaxWorkers:
          (InPresenceWait(w)
              /\ SessionInactive(replay_state, workers[w].session_id))
            ~> HasTerminated(w)
    /\ [][\A w \in Workers:
             (/\ InPresenceWait(w)
              /\ SessionInactive(replay_state, workers[w].session_id)
              /\ replay_connected_clients = 0
              /\ workers'[w].pc \notin {"wait_state", "wait_cv", "cv_waiting"})
               => workers'[w].pc = "abandoned"]_vars

\* C7 witness: the lost wake-up: a worker sits in the condition wait of a
\* stopped session, nobody is connected, it has not been notified and no
\* stop is left that would notify it
C7_Witness ==
    /\ replay_connected_clients = 0
    /\ \A h \in Handlers: handlers[h].pc # "stop_notify"
    /\ \E w \in Workers:
          /\ workers[w].pc = "cv_waiting"
          /\ ~workers[w].notified
          /\ SessionInactive(replay_state, workers[w].session_id)

\* C8: the locked section of stop sets running=false, increases session_id
\* (so that every worker's next epoch check fails), records finished_at and
\* keeps the state it wrote as the snapshot it returns; the step after it
\* notifies every thread waiting on the presence condition.
C8_StopContract ==
    [][\A h \in Handlers:
          /\ StopLocked(h) =>
                /\ ~replay_state'.running
                /\ replay_state'.session_id > replay_state.session_id
                /\ replay_state'.finished_at # None
                /\ handlers'[h].snapshot = <<replay_state'>>
                /\ handlers'[h].pc = "stop_notify"
                /\ \A w \in Workers:
                      SessionInactive(replay_state', workers[w].session_id)
          /\ StopNotify(h) =>
                /\ ~handlers[h].snapshot[1].running
                /\ \A w \in Workers:
                      workers[w].pc = "cv_waiting" => workers'[w].notified]_vars

\* C8 witness: a stop has written the state and a worker of the stopped
\* session waits on the presence condition for the notify to come
C8_Witness ==
    \E h \in Handlers:
        /\ handlers[h].pc = "stop_notify"
        /\ handlers[h].op = "stop"
        /\ \E w \in Workers:
              /\ workers[w].pc = "cv_waiting"
              /\ workers[w].session_id + 1 = replay_state.session_id

\* the fields of the snapshot C9 compares
SameTerminalSnapshot(a, b) ==
    /\ a.completed = b.completed
    /\ a.events_sent = b.events_sent
    /\ a.error = b.error

\* C9 as claimed: a stop made right after a stop (nothing else wrote the
\* state in between) returns running=false with the same session_id,
\* completed, events_sent and error as the first.
C9_StopIdempotent ==
    [][\A h \in Handlers:
          (StopLocked(h) /\ last_stop = <<handlers[h].reason>>) =>
             /\ ~replay_state.running /\ ~replay_state'.running
             /\ SameTerminalSnapshot(replay_state', replay_state)
             /\ replay_state'.session_id = replay_state.session_id]_vars

\* a start that loaded its events and wrote the state
StartSucceeded(h) == StartLocked(h) /\ handlers'[h].pc = "start_spawn"

\* C10: a successful start publishes running=true, completed=false,
\* events_sent=0, error=None, finished_at=None, events_total = number of
\* loaded events and a session_id greater than every earlier one (session_id
\* never decreases), and then spawns exactly one worker, bound to that
\* session_id, which no other worker is bound to.
C10_StartContract ==
    [][/\ replay_state'.session_id >= replay_state.session_id
       /\ \A h \in Handlers:
          /\ StartSucceeded(h) =>
                /\ replay_state'.running /\ ~replay_state'.completed
                /\ replay_state'.events_sent = 0
                /\ replay_state'.error = None
                /\ replay_state'.finished_at = None
                /\ replay_state'.events_total
                      = Len(_load_replay_events(handlers[h].path).events)
                /\ replay_state'.events_total > 0
                /\ replay_state'.session_id > replay_state.session_id
                /\ handlers'[h].snapshot = <<replay_state'>>
          /\ StartSpawn(h) =>
                /\ Len(workers') = Len(workers) + 1
                /\ workers'[Len(workers')].session_id
                      = handlers[h].snapshot[1].session_id
                /\ workers'[Len(workers')].pc = "check1"
                /\ \A w \in Workers:
                      /\ workers'[w] = workers[w]
                      /\ workers[w].session_id
                            # handlers[h].snapshot[1].session_id]_vars

\* C10 witness: a start has succeeded after an earlier session completed and
\* was then stopped
C10_Witness ==
    \E h \in Handlers:
        /\ handlers[h].pc = "start_spawn"
        /\ handlers[h].snapshot[1].session_id = 3
        /\ \E w \in Workers: workers[w].pc = "completed"

\* C11: a start requested while a session is running stops that session
\* first: the stop's write (running=false, error 'restarted', session_id
\* increased) comes before the write of the new session's initial state.
\* The start is not queued behind the old session: each of its steps can be
\* taken whatever the old worker is doing, and the new worker is spawned
\* without any step of the old worker in between being needed.
C11_CancelAndReplace ==
    /\ [][\A h \in Handlers:
             /\ ((\E path \in StartPaths: BeginReplayStart(h, path))
                    /\ replay_state.running /\ handlers'[h].op = "start")
                  => handlers'[h].pc = "stop_lock"
             /\ (StopLocked(h) /\ handlers[h].op = "start")
                  => /\ ~replay_state'.running
                     /\ replay_state'.error = "restarted"
                     /\ replay_state'.session_id > replay_state.session_id
                     /\ handlers'[h].snapshot = <<replay_state'>>
             /\ (StartSucceeded(h) /\ handlers[h].snapshot # <<>>)
                  => /\ ~handlers[h].snapshot[1].running
                     /\ handlers[h].snapshot[1].error = "restarted"
                     /\ handlers[h].snapshot[1].session_id
                           < replay_state'.session_id]_vars
    /\ [](\A h \in Handlers:
             /\ handlers[h].pc = "stop_lock" => ENABLED StopLocked(h)
             /\ handlers[h].pc = "stop_notify" => ENABLED StopNotify(h)
             /\ handlers[h].pc = "start_lock" => ENABLED StartLocked(h)
             /\ handlers[h].pc = "start_spawn" => ENABLED StartSpawn(h))

\* C11 witness: the new session's worker has been spawned by a start that
\* stopped a running session, while the old session's worker is still
\* alive in the middle of its loop
C11_Witness ==
    /\ replay_state.running
    /\ replay_state.session_id = 3
    /\ \E w \in Workers:
          /\ workers[w].session_id = 1
          /\ workers[w].pc \in {"sleep", "wait_state", "wait_cv", "cv_waiting"}
    /\ \E w \in Workers:
          /\ workers[w].session_id = 3
          /\ workers[w].pc = "check1"

\* a write to the state of the running session sid that is one step of its
\* progress: events_sent grows by one, after that event's emission, or the
\* terminal state is written once every event is sent
ProgressStep(sid) ==
    \/ /\ replay_state'.events_sent = replay_state.events_sent + 1
       /\ replay_state'.events_sent <= replay_state.events_total
       /\ Len(replay_events[sid]) = replay_state'.events_sent
       /\ replay_state'.running /\ ~replay_state'.completed
    \/ /\ ~replay_state'.running /\ replay_state'.completed
       /\ replay_state'.error = None
       /\ replay_state'.finished_at # None
       /\ replay_state'.events_sent = replay_state.events_sent
       /\ replay_state.events_sent = replay_state.events_total

\* C12: while a session runs and is neither stopped nor superseded, every
\* change of the published state is one step of its progress: events_sent
\* takes the values 0,1,...,total one by one, each after the emission of
\* that event, and the terminal state (running=false, completed=true,
\* error=None, finished_at set) comes only with events_sent = total.
C12_ProgressOneByOne ==
    [][\A sid \in SessionIds:
          (/\ replay_state.running
           /\ replay_state.session_id = sid
           /\ replay_state'.session_id = sid
           /\ replay_state' # replay_state)
             => ProgressStep(sid)]_vars

\* C12 for the first session started on a fresh process, which has no
\* earlier worker beside it
C12_FirstSession ==
    [][(/\ replay_state.running
        /\ replay_state.session_id = 1
        /\ replay_state'.session_id = 1
        /\ replay_state' # replay_state)
          => ProgressStep(1)]_vars

\* C13: under fair scheduling of the worker threads, a worker whose
\* session is current and running reaches its end with the Completed state
\* published (running=false, completed=true), unless the session is stopped
\* or superseded (session_id changes) or, with gating enabled, no observer
\* is connected.
C13_EventuallyCompleted ==
    \A w \in 1..MaxWorkers:
        (/\ w \in Workers
         /\ ~WorkerTerminated(workers[w])
         /\ ~SessionInactive(replay_state, workers[w].session_id))
          ~> \/ /\ HasTerminated(w)
                /\ ~replay_state.running
                /\ replay_state.completed
             \/ /\ w \in Workers
                /\ replay_state.session_id # workers[w].session_id
             \/ (~REPLAY_NO_CLIENT_GATE /\ replay_connected_clients = 0)

\* a start that failed while loading its trace
StartFailed(h) == StartLocked(h) /\ handlers'[h].pc = "idle"

\* C14: a start that fails while loading the trace leaves running,
\* completed, session_id, events_path, events_sent, error and finished_at as
\* they were.
C14_FailedStartLeavesState ==
    [][\A h \in Handlers:
          StartFailed(h) =>
             /\ replay_state'.running = replay_state.running
             /\ replay_state'.completed = replay_state.completed
             /\ replay_state'.session_id = replay_state.session_id
             /\ replay_state'.events_path = replay_state.events_path
             /\ replay_state'.events_sent = replay_state.events_sent
             /\ replay_state'.error = replay_state.error
             /\ replay_state'.finished_at = replay_state.finished_at]_vars

\* the trace at path is no array, or holds no usable event
BadTrace(path) ==
    \/ Unwrap(Document(path)).kind # "list"
    \/ Len(_load_replay_events(path).events) = 0

\* C15: a start whose trace is no array or holds no usable event answers
\* with an error in the step that loads the trace: that step allocates no
\* session_id, spawns no worker and emits nothing, and the handler is done
\* (no spawn follows); so no worker and no emitted event ever belongs to
\* such a trace.
C15_LoadErrorsSynchronous ==
    /\ [][\A h \in Handlers:
             (StartLocked(h) /\ BadTrace(handlers[h].path)) =>
                /\ handlers'[h].status = 400
                /\ handlers'[h].pc = "idle"
                /\ replay_state'.session_id = replay_state.session_id
                /\ ~replay_state'.running
                /\ replay_state'.error # None
                /\ workers' = workers
                /\ replay_events' = replay_events]_vars
    /\ [](\A h \in Handlers:
             handlers[h].pc = "start_spawn" => ~BadTrace(handlers[h].path))
    /\ [](\A w \in Workers: ~BadTrace(workers[w].events_path))
    /\ [](\A sid \in SessionIds: \A i \in 1..Len(replay_events[sid]):
             ~BadTrace(replay_events[sid][i].events_path))

\* C15 witness: a start on a document that is no array has failed after
\* it stopped the running session 1
C15_Witness ==
    /\ replay_state.error = "events file must be a JSON array"
    /\ replay_state.session_id = 2
    /\ Len(workers) = 1
    /\ \E h \in Handlers: handlers[h].status = 400

\* C16: when a call inside the loop of the current session's worker
\* raises, the failure is recorded in the shared state: error is set,
\* running is reset, events_sent keeps its value; and the state never shows
\* running=true while no thread is left to run that session.
C16_FailureCaptured ==
    /\ [][\A w \in Workers:
             (/\ WorkerRaises(w)
              /\ ~SessionInactive(replay_state, workers[w].session_id))
               => /\ replay_state'.error # None
                  /\ ~replay_state'.running
                  /\ replay_state'.events_sent = replay_state.events_sent]_vars
    /\ [](replay_state.running =>
             \/ \E w \in Workers:
                   /\ workers[w].session_id = replay_state.session_id
                   /\ ~WorkerTerminated(workers[w])
             \/ \E h \in Handlers:
                   /\ handlers[h].pc = "start_spawn"
                   /\ handlers[h].snapshot[1].session_id
                         = replay_state.session_id)

\* the second half of C16 where no call raises
C16_RunningHasWorker ==
    replay_state.running =>
       \/ \E w \in Workers:
             /\ workers[w].session_id = replay_state.session_id
             /\ ~WorkerTerminated(workers[w])
       \/ \E h \in Handlers:
             /\ handlers[h].pc = "start_spawn"
             /\ handlers[h].snapshot[1].session_id = replay_state.session_id

\* C17: the history never holds more than MAX_HISTORY entries, in any
\* state a reader of command_history (get_history, handle_connect) can see.
C17_HistoryBounded == Len(command_history) <= MAX_HISTORY

\* C17 restricted to the states where no thread is inside log_command
C17_BoundedWhenQuiescent ==
    (\A p \in Sources: producers[p].pc = "idle")
       => Len(command_history) <= MAX_HISTORY

\* C18: once one caller has appended n = MAX_HISTORY + k entries (k > 0) to
\* an empty history, the history holds exactly MAX_HISTORY entries: the
\* entries k+1..n in the order they were appended, the k oldest being the
\* ones evicted.
C18_OldestEvicted ==
    LET n == producers["terminal"].sent IN
    (producers["terminal"].pc = "idle" /\ n > MAX_HISTORY) =>
       /\ Len(command_history) = MAX_HISTORY
       /\ \A i \in 1..MAX_HISTORY:
             command_history[i] =
                [source |-> "terminal", command |-> n - MAX_HISTORY + i]

\* C18 witness: the caller has appended MAX_HISTORY + MaxOverflow entries
\* and is back from its last call
C18_Witness ==
    /\ producers["terminal"].sent = MAX_HISTORY + MaxOverflow
    /\ producers["terminal"].pc = "idle"
    /\ \A p \in Sources \ {"terminal"}: producers[p].sent = 0

\* the entries of source p in the history, in list order
EntriesOf(p) == SelectSeq(command_history, LAMBDA e: e.source = p)

RECURSIVE SumSent(_)
SumSent(ps) ==
    IF ps = {} THEN 0
    ELSE LET p == CHOOSE x \in ps: TRUE IN producers[p].sent + SumSent(ps \ {p})

\* C19: with threads appending concurrently, the entries of each caller
\* that are in the history are its latest ones, each once, in its call
\* order; entries leave the history only from the head (the oldest) and only
\* when the list is over capacity, so none is lost otherwise; every append
\* adds exactly the caller's entry at the tail; and the history is never
\* shorter than what was appended, up to the capacity.
C19_AppendsNotLost ==
    /\ [](\A p \in Sources:
             LET mine == EntriesOf(p) IN
             \A i \in 1..Len(mine):
                 mine[i].command = producers[p].sent - Len(mine) + i)
    /\ [](Len(command_history) >=
             IF SumSent(Sources) < MAX_HISTORY
             THEN SumSent(Sources) ELSE MAX_HISTORY)
    /\ [][\/ command_history' = command_history
          \/ \E p \in Sources:
                /\ command_history' = Append(command_history,
                       [source |-> p, command |-> producers[p].sent + 1])
                /\ producers'[p].sent = producers[p].sent + 1
          \/ /\ Len(command_history) > MAX_HISTORY
             /\ command_history' = Tail(command_history)]_vars

\* the part of C19 about each caller's own entries: the entries of a
\* caller that are in the history are its latest ones, each once, in its
\* call order
C19_CallerOrderKept ==
    \A p \in Sources:
        LET mine == EntriesOf(p) IN
        \A i \in 1..Len(mine):
            mine[i].command = producers[p].sent - Len(mine) + i

\* C20: the epoch never decreases, every start that succeeds and every stop
\* raises it above all earlier values, and no two sessions get the same
\* epoch: the workers started, and the sessions whose worker is about to be
\* started, all have different epochs, also with two requests in progress
\* at the same time
C20_EpochStrictlyIncreasing ==
    /\ [][/\ replay_state'.session_id >= replay_state.session_id
          /\ \A h \in DOMAIN handlers:
                (StartSucceeded(h) \/ StopLocked(h))
                    => replay_state'.session_id > replay_state.session_id]_vars
    /\ [](\A v, w \in Workers:
             v # w => workers[v].session_id # workers[w].session_id)
    /\ [](\A h \in DOMAIN handlers:
             handlers[h].pc = "start_spawn" =>
                LET mine == handlers[h].snapshot[1].session_id IN
                /\ mine <= replay_state.session_id
                /\ \A w \in Workers: workers[w].session_id # mine
                /\ \A g \in DOMAIN handlers \ {h}:
                      handlers[g].pc = "start_spawn"
                          => handlers[g].snapshot[1].session_id # mine)

\* C20 witness: two start requests in progress at the same time have both
\* passed the locked section and each is about to start its worker
C20_Witness ==
    \E g, h \in DOMAIN handlers:
        /\ g # h
        /\ handlers[g].pc = "start_spawn"
        /\ handlers[h].pc = "start_spawn"
        /\ handlers[g].snapshot[1].session_id < handlers[h].snapshot[1].session_id

\* the workers that take their session for the active one: threads that
\* have not returned, bound to the current epoch, while running is set
ActiveWorkers ==
    {w \in Workers: /\ ~WorkerTerminated(workers[w])
                    /\ ~SessionInactive(replay_state, workers[w].session_id)}

\* C21: in every state at most one worker is bound to the epoch that is
\* current while running=true, and the epochs of any two workers, returned
\* or not, are different, also with two requests in progress at once
C21_AtMostOneActive ==
    /\ Cardinality(ActiveWorkers) <= 1
    /\ Cardinality({workers[w].session_id: w \in Workers}) = Len(workers)

\* C21 witness: two worker threads are alive at once, the one of the
\* running session and one of a session that was superseded
C21_Witness ==
    \E v, w \in Workers:
        /\ v # w
        /\ ~WorkerTerminated(workers[v])
        /\ ~WorkerTerminated(workers[w])
        /\ w \in ActiveWorkers
        /\ v \notin ActiveWorkers

\* the events the loader returns for the drawn trace document
LoadedLong == _load_replay_events("long")

\* the list under which the drawn document holds its records
ItemsLong == Unwrap(Document("long")).items

\* the original indices of a list of loaded events, in their order
OrderOf(events) == [k \in 1..Len(events) |-> events[k].idx]

\* the loaded events are the usable records, each once, whatever the order
PermutationOfUsable(events, items) ==
    /\ Len(events) = Cardinality({i \in 1..Len(items): items[i].is_dict})
    /\ \A i \in 1..Len(items):
          items[i].is_dict =>
             \E k \in 1..Len(events):
                events[k] = [idx |-> i - 1,
                             timestamp |-> NormalizeTimestamp(items[i].timestamp),
                             event_type |-> items[i].event_type]

\* no event comes after an event with a greater timestamp
TimestampsNonDecreasing(events) ==
    \A i, j \in 1..Len(events):
        i < j => ~FloatLt(events[j].timestamp, events[i].timestamp)

\* events with equal timestamps are in the order of the source
TiesKeepSourceOrder(events) ==
    \A i, j \in 1..Len(events):
        (i < j /\ FloatEq(events[i].timestamp, events[j].timestamp))
            => events[i].idx < events[j].idx

\* the records at timestamps 3, 1, 2
Trace312 == [i \in 1..3 |-> TraceRecord(i, TRUE, <<<<3, 1, 2>>[i]>>)]

\* C22: for every trace document the loader accepts, the events it hands to
\* the worker are a permutation of the usable records, no event comes after one with a
\* greater timestamp, events with equal timestamps keep their source order,
\* the worker emits the events in that order, and the trace with timestamps
\* 3, 1, 2 is played in the order of the original indices 1, 2, 0
C22_LoaderSorts ==
    /\ \A w \in Workers:
          (workers[w].events_path = "long" /\ ~WorkerTerminated(workers[w]))
              => /\ workers[w].events = LoadedLong.events
                 /\ PermutationOfUsable(workers[w].events, ItemsLong)
                 /\ TimestampsNonDecreasing(workers[w].events)
                 /\ TiesKeepSourceOrder(workers[w].events)
                 /\ ItemsLong = Trace312
                       => OrderOf(workers[w].events) = <<1, 2, 0>>
    /\ \A sid \in SessionIds: \A k \in 1..Len(replay_events[sid]):
          replay_events[sid][k].events_path = "long"
              => replay_events[sid][k].event = LoadedLong.events[k]

\* no record of the drawn document has the timestamp NaN
NoNaN == \A i \in 1..Len(ItemsLong): ItemsLong[i].timestamp # <<NaN>>

\* the events of the trace with timestamps 3, 1, 2 have all been emitted
Played312 ==
    /\ ItemsLong = Trace312
    /\ \E sid \in SessionIds:
          /\ Len(replay_events[sid]) = 3
          /\ [k \in 1..3 |-> replay_events[sid][k].event.idx] = <<1, 2, 0>>

\* what holds of C22: the same for the trace documents without a NaN
\* timestamp
C22_SortsWithoutNaN == NoNaN => C22_LoaderSorts

\* the records of a list with every absent or invalid timestamp written out
\* as the number 0
ZeroFilled(items) ==
    [i \in 1..Len(items) |->
        IF items[i].timestamp = <<>>
        THEN [items[i] EXCEPT !.timestamp = <<0>>]
        ELSE items[i]]

\* a start of the drawn trace document by handler h
StartsLong(h) == StartLocked(h) /\ handlers[h].path = "long"

\* C23: bad records do not fail the load. A start of a trace whose array
\* holds at least one mapping succeeds; the worker gets every record that is
\* a mapping and none that is not; a record whose timestamp is absent or
\* not convertible is there with timestamp 0, a record with a convertible
\* timestamp with that timestamp; and the order is the one the loader gives
\* the same trace with the number 0 written in place of the bad timestamps
C23_BadRecordsTolerated ==
    /\ [][\A h \in Handlers:
             (/\ StartsLong(h)
              /\ Unwrap(Document("long")).kind = "list"
              /\ \E i \in 1..Len(ItemsLong): ItemsLong[i].is_dict)
                 => /\ handlers'[h].pc = "start_spawn"
                    /\ replay_state'.events_total =
                          Cardinality({i \in 1..Len(ItemsLong):
                                          ItemsLong[i].is_dict})]_vars
    /\ [](\A w \in Workers:
             (workers[w].events_path = "long" /\ ~WorkerTerminated(workers[w]))
                 => LET events == workers[w].events IN
                    /\ \A k \in 1..Len(events):
                          ItemsLong[events[k].idx + 1].is_dict
                    /\ \A i \in 1..Len(ItemsLong):
                          ItemsLong[i].is_dict =>
                             \E k \in 1..Len(events):
                                /\ events[k].idx = i - 1
                                /\ events[k].timestamp =
                                      IF ItemsLong[i].timestamp = <<>>
                                      THEN 0
                                      ELSE ItemsLong[i].timestamp[1]
                    /\ Len(events) = Cardinality({i \in 1..Len(ItemsLong):
                                                     ItemsLong[i].is_dict})
                    /\ events = SortRows(IndexedEvents(ZeroFilled(ItemsLong))))

\* C23 witness: a trace with a record that is no mapping, a record with a
\* bad timestamp and a record with a positive timestamp before it has been
\* loaded, and the worker has emitted the record with the bad timestamp
\* first
C23_Witness ==
    /\ Len(ItemsLong) = 3
    /\ ~ItemsLong[1].is_dict
    /\ ItemsLong[2].is_dict /\ ItemsLong[2].timestamp = <<MaxTimestamp>>
    /\ ItemsLong[3].is_dict /\ ItemsLong[3].timestamp = <<>>
    /\ \E sid \in SessionIds:
          /\ Len(replay_events[sid]) = 2
          /\ replay_events[sid][1].event.idx = 2
          /\ replay_events[sid][1].event.timestamp = 0
          /\ replay_events[sid][2].event.idx = 1

\* the list of records a document exposes: <<items>> for a bare array, for
\* an object with a list under 'events', else for an object with a list
\* under 'data'; <<>> for every other document
ExposedItems(doc) ==
    CASE doc.kind = "list" -> <<doc.items>>
      [] doc.kind = "dict" /\ doc.events.kind = "list" -> <<doc.events.items>>
      [] doc.kind = "dict" /\ doc.events.kind # "list" /\ doc.data.kind = "list"
            -> <<doc.data.items>>
      [] OTHER -> <<>>

\* the list the drawn trace document exposes
ExposedLong == ExposedItems(Document("long"))

\* C24: a start of a document that exposes a list with a usable record
\* succeeds with the records of that list; a start of a document that
\* exposes no list fails with 'events file must be a JSON array', answers
\* 400, spawns no worker and emits no event
C24_AcceptedDocuments ==
    /\ [][\A h \in Handlers:
             StartsLong(h) =>
                IF ExposedLong = <<>>
                THEN /\ handlers'[h].pc = "idle"
                     /\ handlers'[h].status = 400
                     /\ replay_state'.error = "events file must be a JSON array"
                     /\ replay_state'.session_id = replay_state.session_id
                     /\ ~replay_state'.running
                ELSE /\ replay_state'.error # "events file must be a JSON array"
                     /\ (\E i \in 1..Len(ExposedLong[1]): ExposedLong[1][i].is_dict)
                           => /\ handlers'[h].pc = "start_spawn"
                              /\ replay_state'.events_total =
                                    Cardinality({i \in 1..Len(ExposedLong[1]):
                                                    ExposedLong[1][i].is_dict})]_vars
    /\ [](\A w \in Workers:
             (workers[w].events_path = "long" /\ ~WorkerTerminated(workers[w]))
                 => /\ ExposedLong # <<>>
                    /\ PermutationOfUsable(workers[w].events, ExposedLong[1]))
    /\ [](ExposedLong = <<>> =>
             /\ \A w \in Workers: workers[w].events_path # "long"
             /\ \A sid \in SessionIds: \A k \in 1..Len(replay_events[sid]):
                   replay_events[sid][k].events_path # "long")

\* C24 witness: an object without a list under 'events' and with a list
\* under 'data' has been started and its worker has emitted an event
C24_Witness ==
    /\ Document("long").kind = "dict"
    /\ Document("long").events = Other
    /\ Document("long").data.kind = "list"
    /\ \E sid \in SessionIds:
          /\ replay_events[sid] # <<>>
          /\ replay_events[sid][1].events_path = "long"

\* the second case C24 is about: a start of a document that exposes no list
\* has failed with the malformed-trace error
C24_Refused ==
    /\ ExposedLong = <<>>
    /\ replay_state.error = "events file must be a JSON array"
    /\ replay_state.events_path = "long"
    /\ \E h \in Handlers: handlers[h].status = 400

\* C25: the presence counter is never negative; a connect adds exactly one,
\* a disconnect takes one away except at zero, where it leaves zero; and
\* nothing else changes the counter
C25_PresenceCounterFloored ==
    /\ [](replay_connected_clients \in Nat)
    /\ [][/\ Connect => replay_connected_clients' = replay_connected_clients + 1
          /\ Disconnect =>
                replay_connected_clients' =
                   IF replay_connected_clients = 0
                   THEN 0 ELSE replay_connected_clients - 1
          /\ replay_connected_clients' # replay_connected_clients
                => Connect \/ Disconnect]_vars

\* C25 witness: a worker that entered the presence wait with no observer
\* connected has been notified by a disconnect, no stop having been
\* requested, and the counter is zero
C25_Witness ==
    /\ replay_connected_clients = 0
    /\ budget = MaxRequests - 1
    /\ \A h \in Handlers: handlers[h].pc = "idle"
    /\ \E w \in Workers: workers[w].pc = "cv_waiting" /\ workers[w].notified

\* a stop has made some of its five assignments and not yet all of them
MidStop ==
    \E g \in DOMAIN handlers:
        /\ handlers[g].pc = "stop_lock"
        /\ handlers[g].written \in 1..(Len(StopFields) - 1)

\* C26: a status request answers with the whole replay state as it is at
\* the instant of the copy, and that instant is never in the middle of a
\* stop's assignments; an answer once given is not changed by later writes
\* to the state; and a worker that holds the replay-state lock is never
\* suspended: its next step is enabled and gives the lock back, so that the
\* lock is not held during a timing sleep or a presence wait
C26_StatusSnapshotConsistent ==
    /\ [][\A h \in DOMAIN handlers:
             ReplayStatus(h) =>
                /\ handlers'[h].snapshot = <<replay_state>>
                /\ replay_state' = replay_state
                /\ ~MidStop]_vars
    /\ [][\A h \in DOMAIN handlers:
             (/\ handlers[h].op = "status"
              /\ handlers'[h].op = "status"
              /\ budget' = budget)
                 => handlers'[h].snapshot = handlers[h].snapshot]_vars
    /\ [](\A w \in Workers:
             locks.replay_state_lock = WorkerThread(w)
                 => ENABLED (WorkerStep(w) /\ locks'.replay_state_lock = NoThread))
    /\ [][\A w \in Workers:
             (locks.replay_state_lock = WorkerThread(w) /\ workers'[w] # workers[w])
                 => locks'.replay_state_lock = NoThread]_vars
    /\ [](\A w \in Workers:
             workers[w].pc \in {"wait_cv", "cv_waiting", "emit", "log"}
                 => locks.replay_state_lock # WorkerThread(w))

\* C26 witness: a status answer taken while the session was running is
\* still the same after the worker has completed the session
C26_Witness ==
    \E h \in DOMAIN handlers:
        /\ handlers[h].op = "status"
        /\ handlers[h].snapshot # <<>>
        /\ handlers[h].snapshot[1].running
        /\ handlers[h].snapshot[1].events_sent = 0
        /\ replay_state.completed
        /\ replay_state.events_sent > 0

\* C27: a worker suspended in the timing sleep whose session has been
\* stopped or superseded leaves the sleep at once: the sleep can end while
\* time is left of it, and the step the worker takes is its exit, not more
\* sleep. The same of the presence wait: the wait can always return, and
\* the check that follows it ends the worker.
C27_SuspensionsInterruptible ==
    /\ [](\A w \in Workers:
             (/\ workers[w].pc = "sleep"
              /\ SessionInactive(replay_state, workers[w].session_id))
                 => ENABLED (WorkerStep(w) /\ WorkerTerminated(workers'[w])))
    /\ [][\A w \in Workers:
             (/\ workers[w].pc = "sleep"
              /\ SessionInactive(replay_state, workers[w].session_id)
              /\ workers'[w] # workers[w])
                 => WorkerTerminated(workers'[w])]_vars
    /\ [](\A w \in Workers: workers[w].pc = "cv_waiting" => ENABLED WaitWake(w))
    /\ [][\A w \in Workers:
             (/\ workers[w].pc = "wait_state"
              /\ SessionInactive(replay_state, workers[w].session_id)
              /\ workers'[w] # workers[w])
                 => WorkerTerminated(workers'[w])]_vars

\* what holds of C27: the presence wait returns without a notify, and the
\* check made after it ends a worker whose session is no longer active
C27_PresenceWaitInterruptible ==
    /\ \A w \in Workers: workers[w].pc = "cv_waiting" => ENABLED WaitWake(w)
    /\ \A w \in Workers:
          (/\ workers[w].pc = "wait_state"
           /\ SessionInactive(replay_state, workers[w].session_id))
              => ENABLED (WaitCheckState(w) /\ workers'[w].pc = "abandoned")

\* C28: with gating disabled the presence check is one step that is always
\* enabled and whose result is decided by the state alone: the worker goes
\* on to emit when its epoch is current and the session running, and ends
\* otherwise, whatever the observer count; it never enters the wait
C28_NoGateNeverBlocks ==
    /\ [](REPLAY_NO_CLIENT_GATE =>
             \A w \in Workers:
                /\ workers[w].pc \notin {"wait_cv", "cv_waiting"}
                /\ workers[w].pc = "wait_state" => ENABLED WaitCheckState(w))
    /\ [][REPLAY_NO_CLIENT_GATE =>
             \A w \in Workers:
                WaitCheckState(w) =>
                   workers'[w].pc =
                      IF /\ replay_state.running
                         /\ replay_state.session_id = workers[w].session_id
                      THEN "emit" ELSE "abandoned"]_vars

\* C28 witness: with gating disabled and no observer connected, a worker
\* has emitted its last event
C28_Witness ==
    /\ REPLAY_NO_CLIENT_GATE
    /\ replay_connected_clients = 0
    /\ \E w \in Workers:
          /\ workers[w].pc = "log"
          /\ Len(replay_events[workers[w].session_id]) = MaxEvents

\* C29: an observer that connects is sent the last min(20, length) entries
\* of the command history, in append order, and then exactly one snapshot of
\* the replay status as it is at that moment; the handler always gets from
\* the first to the second.
C29_ConnectWindow ==
    /\ [][\A o \in DOMAIN observers:
            ObserverHistory(o) =>
               LET length == Len(command_history)
                   count == IF length < 20 THEN length ELSE 20
               IN observers'[o].history =
                     [i \in 1..count |-> command_history[length - count + i]]]_vars
    /\ [][\A o \in DOMAIN observers:
            ObserverState(o) => observers'[o].state = <<replay_state>>]_vars
    /\ [][\A o \in DOMAIN observers:
            observers[o].pc = "out" /\ observers'[o].pc # "out" =>
               /\ observers'[o].pc = "connect_history"
               /\ observers'[o].state = <<>>]_vars
    /\ [](\A o \in DOMAIN observers:
            /\ observers[o].pc = "connect_history" => ENABLED ObserverHistory(o)
            /\ observers[o].pc = "connect_state" =>
                  /\ ENABLED ObserverState(o)
                  /\ observers[o].state = <<>>
            /\ observers[o].pc = "in" => Len(observers[o].state) = 1)

\* an observer connected while the history was longer than the window and a
\* replay was running: it holds the 20 newest entries and a running status
C29_Witness ==
    \E o \in DOMAIN observers:
       /\ observers[o].pc = "in"
       /\ Len(observers[o].history) = 20
       /\ observers[o].history[20].source = "webui"
       /\ observers[o].history[1].command > 1
       /\ observers[o].state[1].running

\* an observer connected to a history shorter than the window
C29_ShortHistory ==
    \E o \in DOMAIN observers:
       /\ observers[o].pc = "in"
       /\ Len(observers[o].history) = 19
       /\ Len(command_history) > 19

\* a step of a request thread that is serving a start
StartStep ==
    \E h \in DOMAIN handlers:
       /\ handlers'[h] # handlers[h]
       /\ handlers[h].op = "start" \/ handlers'[h].op = "start"

\* a step of a request thread that is serving a stop
StopStep ==
    \E h \in DOMAIN handlers:
       /\ handlers'[h] # handlers[h]
       /\ handlers[h].op = "stop" \/ handlers'[h].op = "stop"

\* a session has ended (Completed, Stopped or Failed) and every worker has
\* returned: none is left bound to the epoch the session ran under, nor to
\* the one a stop has moved the state to
EndedSession ==
    /\ ~replay_state.running
    /\ replay_state.finished_at # None
    /\ \A w \in Workers: WorkerTerminated(workers[w])

FrozenFields ==
    <<replay_state.completed, replay_state.events_sent,
      replay_state.events_total, replay_state.error,
      replay_state.finished_at, replay_state.session_id>>

\* C30: from a state with running=false, a session ended and no live worker
\* bound to its epoch, no step other than a step of a new start changes
\* completed, events_sent, events_total, error, finished_at or the epoch
C30_SessionImmutable ==
    [][EndedSession /\ ~StartStep => FrozenFields' = FrozenFields]_vars

\* the case C30 names: a stop served after completion leaves completed set
C30_StopKeepsCompleted ==
    [][EndedSession /\ replay_state.completed /\ StopStep =>
          replay_state'.completed]_vars

\* what the code does keep: an ended session is changed by the request
\* threads only, never by a worker or by an observer
C30_FrozenWithoutRequests ==
    [][EndedSession /\ ~StartStep /\ ~StopStep =>
          FrozenFields' = FrozenFields]_vars

\* the number of history entries the replay workers have appended
AgentEntries ==
    Cardinality({i \in 1..Len(command_history):
                    command_history[i].source = "agent"})

\* the number of 'replay_event' payloads emitted, over all sessions
EmittedEvents ==
    Cardinality(UNION {{<<sid, i>>: i \in 1..Len(replay_events[sid])}:
                          sid \in SessionIds})

\* the per-event update of worker w comes after the emission of its event
\* and sets events_sent to index + 1
UpdateFollowsEmit ==
    \A w \in Workers:
       UpdateEvent(w) =>
          /\ Len(replay_events[workers[w].session_id]) >= workers[w].idx + 1
          /\ replay_state'.events_sent = workers[w].idx + 1

\* C31: for each replayed event the history entry is appended first, then
\* the payload is emitted, then the state is updated to events_sent =
\* index + 1: no payload is ever emitted whose history entry has not been
\* appended yet, and no update precedes the emission
C31_EffectOrder ==
    /\ [](EmittedEvents <= AgentEntries)
    /\ [][UpdateFollowsEmit]_vars

\* the order the worker does keep: emission, history entry, update
C31_EmitLogUpdate ==
    /\ [](AgentEntries <= EmittedEvents)
    /\ [](\A w \in Workers:
            workers[w].pc = "update" =>
               /\ Len(replay_events[workers[w].session_id]) = workers[w].idx + 1
               /\ AgentEntries >= 1)
    /\ [][UpdateFollowsEmit]_vars

\* the entry at the tail of the history
Newest(history) == history[Len(history)]

\* C32: an entry that arrives with a caller-supplied timestamp is stored with
\* that timestamp, also when the caller supplies 'timestamp' without 'ts_ms',
\* and an entry that arrives without one is stored with a timestamp
C32_TimestampOnlyIfAbsent ==
    /\ [][\A ts \in Optional(CallerStamps):
            \A ts_ms \in Optional({t * 1000: t \in CallerStamps}):
               \A now \in ServerClock:
                  TerminalNotify(ts, ts_ms, now) =>
                     /\ ts # <<>> => Newest(command_history').timestamp = ts
                     /\ ts = <<>> => Newest(command_history').timestamp # <<>>]_vars
    /\ [][\A p \in Sources: \A now \in ServerClock:
            StampedLogCommand(p, now) =>
               Newest(command_history').timestamp # <<>>]_vars

\* what terminal_notify does keep: a timestamp supplied together with
\* 'ts_ms' is stored as supplied, and no entry is stored without a timestamp
C32_KeptWhenBothSupplied ==
    /\ [][\A ts \in Optional(CallerStamps):
            \A ts_ms \in Optional({t * 1000: t \in CallerStamps}):
               \A now \in ServerClock:
                  (TerminalNotify(ts, ts_ms, now) /\ ts # <<>> /\ ts_ms # <<>>) =>
                     /\ Newest(command_history').timestamp = ts
                     /\ Newest(command_history').ts_ms = ts_ms]_vars
    /\ [](\A i \in 1..Len(command_history):
            /\ command_history[i].timestamp # <<>>
            /\ command_history[i].ts_ms # <<>>)

\* a thread that is inside log_command, or about to call it
Appending(p) == producers[p].pc # "idle" \/ producers[p].todo > 0

\* C33: no step of an append to the history takes or needs a lock: it is
\* enabled whoever holds the replay-state lock, also while a worker sleeps
\* or waits for an observer; and a worker that emits, appends its history
\* entry, sleeps or waits for presence does not hold the replay-state lock
C33_AppendsIndependent ==
    /\ [][\A p \in Sources: HistoryStep(p) => locks' = locks]_vars
    /\ [](\A p \in Sources: Appending(p) => ENABLED HistoryStep(p))
    /\ [][\A w \in Workers:
            (EmitEvent(w) \/ LogEvent(w) \/ WorkerTick(w)) =>
               /\ HoldsNothing(WorkerThread(w))
               /\ locks' = locks]_vars
    /\ [](\A w \in Workers:
            \/ workers[w].pc \in {"emit", "log", "wait_cv", "cv_waiting"}
            \/ workers[w].pc = "sleep" /\ workers[w].sleep_left > 0
            => locks.replay_state_lock # WorkerThread(w))

\* C33 witness: the web UI has appended all its entries, the newest after
\* the worker's own, while the worker sleeps before its second event and
\* another thread holds the replay-state lock
C33_Witness ==
    /\ producers["webui"].sent = MaxAppends
    /\ Len(command_history) > 1
    /\ command_history[Len(command_history)].source = "webui"
    /\ command_history[Len(command_history) - 1].source = "agent"
    /\ locks.replay_state_lock \notin {NoThread} \cup {WorkerThread(w): w \in Workers}
    /\ \E w \in Workers:
          /\ workers[w].pc = "sleep"
          /\ workers[w].sleep_left > 0

\* a worker gated on presence while the web UI appends
C33_Gated ==
    /\ producers["webui"].pc = "check"
    /\ \E w \in Workers: workers[w].pc = "cv_waiting"

\* the speed a start request is served at, as the claim states it
EffectiveSpeed(speed_raw) ==
    CASE speed_raw.kind \in {"missing", "null", "text"} -> {REPLAY_DEFAULT_SPEED}
      [] speed_raw.kind = "number" /\ speed_raw.value = NaN -> {SPEED_FLOOR}
      [] speed_raw.kind = "number" /\ speed_raw.value # NaN ->
            {IF speed_raw.value < 5 THEN 5 ELSE speed_raw.value}

\* C34: a requested speed below 0.05 (zero and negative too) becomes 0.05, a
\* speed that is missing or is not a number becomes the configured default,
\* and the speed stored in the state and the divisor of every worker are the
\* speed the request was served at and never below 0.05 (5 hundredths)
C34_SpeedFloor ==
    /\ [][\A h \in DOMAIN handlers: \A path \in SpeedPaths:
            \A speed_raw \in SpeedInputs:
               (/\ BeginReplayStartAt(h, path, speed_raw)
                /\ _resolve_replay_events_path(path) # None)
                  => handlers'[h].speed \in EffectiveSpeed(speed_raw)]_vars
    /\ [][\A h \in DOMAIN handlers:
            (StartLocked(h) /\ replay_state'.running)
               => replay_state'.speed = handlers[h].speed]_vars
    /\ [][\A h \in DOMAIN handlers:
            StartSpawn(h) =>
               Divisor(workers'[Len(workers')]) = handlers[h].snapshot[1].speed]_vars
    /\ [](replay_state.speed # NaN /\ replay_state.speed >= 5)
    /\ [](\A h \in DOMAIN handlers:
            handlers[h].speed # NaN /\ handlers[h].speed >= 5)
    /\ [](\A w \in Workers:
            Divisor(workers[w]) # NaN /\ Divisor(workers[w]) >= 5)

\* C34 witness: a session runs at the floor and its worker sleeps the 20
\* ticks that one unit of timestamp takes at speed 0.05
C34_Witness ==
    /\ replay_state.running
    /\ replay_state.speed = 5
    /\ \E w \in Workers:
          /\ workers[w].pc = "sleep"
          /\ Divisor(workers[w]) = 5
          /\ workers[w].sleep_left = 20

\* C35: in every reachable state completed=true implies running=false,
\* whatever the interleaving of starts, stops, failed starts and worker
\* updates, the terminal update of a stale worker included
C35_NotRunningAndCompleted ==
    replay_state.completed => ~replay_state.running

\* C35 witness: the state is completed by the terminal update of a worker
\* whose session had been replaced by a newer one
C35_Witness ==
    /\ replay_state.completed
    /\ \E w \in Workers:
          /\ workers[w].pc = "completed"
          /\ workers[w].session_id < replay_state.session_id
    /\ \A w \in Workers:
          workers[w].session_id = replay_state.session_id =>
             workers[w].pc # "completed"

\* C36: whenever running=true, finished_at and error are null; a step that
\* gives finished_at or error a value leaves running=false, and running
\* becomes true only in the locked section of a start
C36_RunningHasNoEnd ==
    /\ [](replay_state.running =>
             replay_state.finished_at = None /\ replay_state.error = None)
    /\ [][(\/ /\ replay_state'.finished_at # replay_state.finished_at
               /\ replay_state'.finished_at # None
            \/ /\ replay_state'.error # replay_state.error
               /\ replay_state'.error # None)
              => ~replay_state'.running]_vars
    /\ [][(~replay_state.running /\ replay_state'.running)
              => \E h \in DOMAIN handlers: StartLocked(h)]_vars

\* C36 witness: a session runs, with finished_at and error null, that was
\* started over a session stopped with error 'restarted'
C36_Witness ==
    /\ replay_state.running
    /\ replay_state.session_id = 3
    /\ replay_state.finished_at = None
    /\ replay_state.error = None
    /\ \E w \in Workers: workers[w].session_id = 1

\* C37: whenever completed=true, events_sent equals events_total and the
\* current epoch is the epoch of a worker that has run to its end, also when
\* a start or a stop comes between a worker's last event and its terminal
\* update
C37_CompletedMeansAllSent ==
    replay_state.completed =>
       /\ replay_state.events_sent = replay_state.events_total
       /\ \E w \in Workers:
             /\ workers[w].pc = "completed"
             /\ workers[w].session_id = replay_state.session_id

\* the first half alone: completed with events still to send
C37_AllSent ==
    replay_state.completed =>
       replay_state.events_sent = replay_state.events_total

\* what holds while one worker only has been started and no request has
\* replaced its session: the state it completes has all its events sent
C37_SingleWorkerAllSent ==
    (/\ replay_state.completed
     /\ Len(workers) = 1
     /\ workers[1].session_id = replay_state.session_id)
       => /\ workers[1].pc = "completed"
          /\ replay_state.events_sent = replay_state.events_total

\* the steps of request thread h where the locks are traced
HandlerStep(h) ==
    \/ \E path \in LockPaths: BeginReplayStart(h, path)
    \/ BeginReplayStop(h)
    \/ ReplayStatus(h)
    \/ StopWriteField(h)
    \/ StopSnapshot(h)
    \/ StopNotify(h)
    \/ StartLocked(h)
    \/ StartSpawn(h)
    \/ HandlerAcquire(h)

\* thread t has a step it can take now
ThreadCanStep(t) ==
    \/ \E w \in Workers:
          t = WorkerThread(w) /\ ENABLED (WorkerStep(w) \/ WorkerAcquire(w))
    \/ \E h \in DOMAIN handlers:
          t = HandlerThread(h) /\ ENABLED HandlerStep(h)
    \/ \E o \in DOMAIN observers:
          t = ObserverThread(o) /\ ENABLED (ObserverStep(o) \/ ObserverAcquire(o))

\* thread t, at place pc, is not stuck: it can take a step, or the lock it
\* waits for is held by another thread that can take a step
NotStuck(t, pc) ==
    \/ ThreadCanStep(t)
    \/ /\ NeededLock(pc) \in LockNames
       /\ LET holder == locks[IF NeededLock(pc) \in LockNames
                              THEN NeededLock(pc) ELSE "replay_state_lock"]
          IN holder \notin {NoThread, t} /\ ThreadCanStep(holder)

\* the threads that have something left to do
BusyWorkers == {w \in Workers: ~WorkerTerminated(workers[w])}

BusyHandlers ==
    {h \in DOMAIN handlers:
        handlers[h].pc # "idle" \/ ~HoldsNothing(HandlerThread(h))}

BusyObservers ==
    {o \in DOMAIN observers:
        \/ observers[o].pc \in {"connect_history", "connect_state"}
        \/ ~HoldsNothing(ObserverThread(o))}

\* C38: no thread holds the replay-state lock and the presence lock at the
\* same time, and no reachable state is a deadlock: every worker, request
\* and observer thread with something left to do can take a step, or waits
\* for a lock whose holder can take one
C38_NoNestingNoDeadlock ==
    /\ \A t \in {locks.replay_state_lock} \ {NoThread}:
          locks.replay_clients_lock # t
    /\ \A w \in BusyWorkers: NotStuck(WorkerThread(w), workers[w].pc)
    /\ \A h \in BusyHandlers: NotStuck(HandlerThread(h), handlers[h].pc)
    /\ \A o \in BusyObservers: NotStuck(ObserverThread(o), observers[o].pc)

\* C38 witness: both locks are held, the state lock by a stop in the middle
\* of its assignments and the presence lock by an observer, while a worker
\* waits for the presence lock
C38_Witness ==
    /\ MidStop
    /\ \E o \in DOMAIN observers:
          locks.replay_clients_lock = ObserverThread(o)
    /\ \E w \in Workers:
          /\ workers[w].pc \in {"wait_cv", "cv_waiting"}
          /\ HoldsNothing(WorkerThread(w))

-----------------------------------------------------------------------------
(* A start request for a trace that does not exist *)

\* resolved.exists() and resolved.is_file(), line 623
IsFile(path) == path \in DOMAIN trace_files

\* the answer 404 of replay_start, line 1153: the request thread has returned
NotFound(h) == handlers[h].pc = "idle" /\ handlers[h].status = 404

\* C39: a start request whose trace path resolves to no existing file
\* answers 404 and changes nothing: the shared replay state with its epoch,
\* the worker threads (none stopped, none spawned), the stop flag and the
\* emitted events are as before the request
C39_NotFoundChangesNothing ==
    [][\A h \in DOMAIN handlers: \A path \in Paths:
          (BeginReplayStart(h, path) /\ ~IsFile(path)) =>
              /\ NotFound(h)'
              /\ UNCHANGED <<replay_state, workers, replay_events, last_stop,
                             replay_connected_clients, command_history,
                             locks>>]_vars

\* C39 witness: a request was answered 404 while a session runs under the
\* epoch of its start, its worker alive with an event already sent
C39_Witness ==
    /\ \E h \in DOMAIN handlers: NotFound(h)
    /\ replay_state.running
    /\ replay_state.session_id = 1
    /\ replay_state.events_sent > 0
    /\ \E w \in Workers:
          /\ ~WorkerTerminated(workers[w])
          /\ workers[w].session_id = replay_state.session_id

====
